---- MODULE Spec2Model ----
(***************************************************************************)
(* Verification model of the book-ingest pipeline of books-crawler:        *)
(*   - the BLIB bundle codec (src/book-ingest/src/bundle.py), at the byte  *)
(*     level: a file is a sequence of bytes 0..255;                        *)
(*   - the chapter walk of the three sources (src/book-ingest/src/sources) *)
(*     against an upstream whose answers are part of the state;            *)
(*   - the atomic rewrite of the bundle, with a concurrent reader.         *)
(***************************************************************************)
EXTENDS Integers, Sequences, FiniteSets, TLC

(* ------------------------------ bounds -------------------------------- *)

\* Largest number of chapters the upstream book holds.
MaxChapters == 3
\* Largest number of upstream chapters that answer with a fault.
MaxFaults == 1
\* Number of ingestion runs of the book.
MaxRuns == 2

\* Observation logs (requests issued, chapters yielded) stop growing here.
\* No run over a finite chain gets near it; it keeps a walk that never ends
\* (a cyclic pointer chain) inside a finite state space.
MaxLog == 3 * (MaxChapters + 2)

(* ------------------------- bundle.py constants ------------------------ *)

BUNDLE_MAGIC == <<66, 76, 73, 66>>
BUNDLE_VERSION_1 == 1
BUNDLE_VERSION_2 == 2
_SUPPORTED_VERSIONS == {BUNDLE_VERSION_1, BUNDLE_VERSION_2}
HEADER_SIZE_V1 == 12
HEADER_SIZE_V2 == 16
ENTRY_SIZE == 16
META_ENTRY_SIZE == 256
_META_TITLE_MAX == 200
_META_SLUG_MAX == 48

(* ------------------------------ bytes --------------------------------- *)

MinOf(a, b) == IF a < b THEN a ELSE b

MaxOf(a, b) == IF a > b THEN a ELSE b

SetMax(S) == CHOOSE m \in S : \A x \in S : x <= m

SetMin(S) == CHOOSE m \in S : \A x \in S : m <= x

Zeros(n) == [i \in 1..n |-> 0]

\* Python buf[a:b] on a byte string (0-based, clipped to the string).
Slice(buf, a, b) == SubSeq(buf, a + 1, MinOf(b, Len(buf)))

\* struct.pack("<I", x)
PackU32(x) ==
    << x % 256, (x \div 256) % 256, (x \div 65536) % 256, (x \div 16777216) % 256 >>

\* struct.pack("<H", x)
PackU16(x) == << x % 256, (x \div 256) % 256 >>

\* struct.unpack_from("<I", buf, off)[0]
UnpackU32(buf, off) ==
    buf[off + 1] + 256 * buf[off + 2] + 65536 * buf[off + 3] + 16777216 * buf[off + 4]

\* struct.unpack_from("<H", buf, off)[0]
UnpackU16(buf, off) == buf[off + 1] + 256 * buf[off + 2]

\* str.encode("utf-8") of one code point below 0x10000.
Utf8OfCodePoint(cp) ==
    IF cp < 128 THEN << cp >>
    ELSE IF cp < 2048 THEN << 192 + (cp \div 64), 128 + (cp % 64) >>
    ELSE << 224 + (cp \div 4096), 128 + ((cp \div 64) % 64), 128 + (cp % 64) >>

RECURSIVE Utf8Encode(_)
\* str.encode("utf-8"): the code points' encodings in order (computed by
\* halves, to keep the evaluation shallow on long strings).
Utf8Encode(s) ==
    IF s = << >> THEN << >>
    ELSE IF Len(s) = 1 THEN Utf8OfCodePoint(s[1])
    ELSE LET h == Len(s) \div 2
         IN  Utf8Encode(SubSeq(s, 1, h)) \o Utf8Encode(SubSeq(s, h + 1, Len(s)))

IsCont(b) == b >= 128 /\ b <= 191

\* bytes.decode("utf-8", errors="replace"): every maximal ill-formed part
\* becomes U+FFFD (65533).
RECURSIVE Utf8DecodeRun(_)
Utf8DecodeRun(b) ==
    IF b = << >> THEN << >>
    ELSE LET c == b[1]
             n == Len(b)
             Rest(k) == Utf8DecodeRun(SubSeq(b, k + 1, n))
         IN  IF c < 128 THEN << c >> \o Rest(1)
             ELSE IF c >= 194 /\ c <= 223
             THEN IF n >= 2 /\ IsCont(b[2])
                  THEN << (c - 192) * 64 + (b[2] - 128) >> \o Rest(2)
                  ELSE << 65533 >> \o Rest(1)
             ELSE IF c >= 224 /\ c <= 239
             THEN IF n >= 3 /\ IsCont(b[2]) /\ IsCont(b[3])
                  THEN << (c - 224) * 4096 + (b[2] - 128) * 64 + (b[3] - 128) >>
                       \o Rest(3)
                  ELSE IF n >= 2 /\ IsCont(b[2])
                  THEN << 65533 >> \o Rest(2)
                  ELSE << 65533 >> \o Rest(1)
             ELSE << 65533 >> \o Rest(1)

\* The decoder starts a new character (or replacement) at position i: the
\* byte is not a continuation byte taken by the lead byte one or two before.
Utf8Start(b, i) ==
    ~ /\ IsCont(b[i])
      /\ \/ i > 1 /\ b[i - 1] >= 194 /\ b[i - 1] <= 239
         \/ i > 2 /\ b[i - 2] >= 224 /\ b[i - 2] <= 239 /\ IsCont(b[i - 1])

RECURSIVE Utf8Decode(_)
\* The decoder on a long buffer: the buffer is cut where a character starts
\* and the parts are decoded on their own.
Utf8Decode(b) ==
    IF Len(b) <= 8 THEN Utf8DecodeRun(b)
    ELSE LET h == Len(b) \div 2
             m == CHOOSE i \in h..(h + 2) :
                     Utf8Start(b, i) /\ \A j \in h..(i - 1) : ~Utf8Start(b, j)
         IN  Utf8Decode(SubSeq(b, 1, m - 1)) \o Utf8Decode(SubSeq(b, m, Len(b)))

RECURSIVE SortedSeq(_)
\* sorted(S) for a finite set of integers.
SortedSeq(S) ==
    IF S = {} THEN << >>
    ELSE LET m == SetMin(S) IN << m >> \o SortedSeq(S \ {m})

RECURSIVE Concat(_)
\* b"".join(parts)
Concat(parts) ==
    IF parts = << >> THEN << >> ELSE Head(parts) \o Concat(Tail(parts))

(* --------------------------- bundle codec ----------------------------- *)

\* A path of the file system: absent, or a byte string.
NoFile == [exists |-> FALSE, data |-> << >>]

FileOf(bytes) == [exists |-> TRUE, data |-> bytes]

\* ChapterMeta(): the dataclass has exactly these three fields.
ChapterMeta(word_count, title, slug) ==
    [word_count |-> word_count, title |-> title, slug |-> slug]

EmptyChapterMeta == ChapterMeta(0, << >>, << >>)

HeaderInvalid ==
    [ok |-> FALSE, version |-> 0, count |-> 0, header_size |-> 0, meta_entry_size |-> 0]

_parse_header(buf) ==
    IF Len(buf) < HEADER_SIZE_V1 THEN HeaderInvalid
    ELSE IF Slice(buf, 0, 4) # BUNDLE_MAGIC THEN HeaderInvalid
    ELSE LET version == UnpackU32(buf, 4)
             count == UnpackU32(buf, 8)
         IN  IF version \notin _SUPPORTED_VERSIONS THEN HeaderInvalid
             ELSE IF version = BUNDLE_VERSION_1
             THEN [ok |-> TRUE, version |-> version, count |-> count,
                   header_size |-> HEADER_SIZE_V1, meta_entry_size |-> 0]
             ELSE IF Len(buf) < HEADER_SIZE_V2 THEN HeaderInvalid
             ELSE [ok |-> TRUE, version |-> version, count |-> count,
                   header_size |-> HEADER_SIZE_V2,
                   meta_entry_size |-> UnpackU16(buf, 12)]

_encode_meta(meta) ==
    LET title_bytes == Slice(Utf8Encode(meta.title), 0, _META_TITLE_MAX)
        slug_bytes == Slice(Utf8Encode(meta.slug), 0, _META_SLUG_MAX)
    IN  PackU32(meta.word_count)
        \o << Len(title_bytes) >> \o title_bytes
        \o Zeros(_META_TITLE_MAX - Len(title_bytes))
        \o << Len(slug_bytes) >> \o slug_bytes
        \o Zeros(_META_SLUG_MAX - Len(slug_bytes))
        \o Zeros(2)

_decode_meta(buf) ==
    IF Len(buf) < META_ENTRY_SIZE THEN EmptyChapterMeta
    ELSE LET title_len == MinOf(buf[5], _META_TITLE_MAX)
             slug_len == MinOf(buf[206], _META_SLUG_MAX)
         IN  ChapterMeta(UnpackU32(buf, 0),
                         Utf8Decode(Slice(buf, 5, 5 + title_len)),
                         Utf8Decode(Slice(buf, 206, 206 + slug_len)))

_EMPTY_META_BLOCK == _encode_meta(EmptyChapterMeta)

\* The index section of a file whose header parsed: the entries, or << >>
\* when the file is shorter than the index it declares.
IndexEntries(data, hdr) ==
    LET idx_buf == Slice(data, hdr.header_size, hdr.header_size + hdr.count * ENTRY_SIZE)
    IN  IF Len(idx_buf) < hdr.count * ENTRY_SIZE THEN << >>
        ELSE [i \in 1..hdr.count |->
                [index_num |-> UnpackU32(idx_buf, (i - 1) * ENTRY_SIZE),
                 offset |-> UnpackU32(idx_buf, (i - 1) * ENTRY_SIZE + 4),
                 comp_len |-> UnpackU32(idx_buf, (i - 1) * ENTRY_SIZE + 8),
                 raw_len |-> UnpackU32(idx_buf, (i - 1) * ENTRY_SIZE + 12)]]

read_bundle_indices(file) ==
    IF ~file.exists THEN {}
    ELSE LET hdr == _parse_header(Slice(file.data, 0, HEADER_SIZE_V2))
         IN  IF ~hdr.ok \/ hdr.count = 0 THEN {}
             ELSE LET entries == IndexEntries(file.data, hdr)
                  IN  {entries[i].index_num : i \in 1..Len(entries)}

\* A dict built by assigning the values of the kept entries in order: the
\* last entry of an index wins.
DictOfEntries(entries, kept, values) ==
    LET keys == {entries[i].index_num : i \in kept}
    IN  [k \in keys |-> values[SetMax({i \in kept : entries[i].index_num = k})]]

\* Mutant: the v2 metadata prefix is not skipped.
read_bundle_raw_no_skip(file) ==
    IF ~file.exists THEN << >>
    ELSE LET hdr == _parse_header(Slice(file.data, 0, HEADER_SIZE_V2))
         IN  IF ~hdr.ok \/ hdr.count = 0 THEN << >>
             ELSE LET entries == IndexEntries(file.data, hdr)
                      Data(e) == Slice(file.data, e.offset, e.offset + e.comp_len)
                      kept == {i \in 1..Len(entries) :
                                 Len(Data(entries[i])) = entries[i].comp_len}
                      values == [i \in 1..Len(entries) |->
                                   << Data(entries[i]), entries[i].raw_len >>]
                  IN  DictOfEntries(entries, kept, values)

read_bundle_raw(file) ==
    IF ~file.exists THEN << >>
    ELSE LET hdr == _parse_header(Slice(file.data, 0, HEADER_SIZE_V2))
         IN  IF ~hdr.ok \/ hdr.count = 0 THEN << >>
             ELSE LET entries == IndexEntries(file.data, hdr)
                      Data(e) == Slice(file.data, e.offset + hdr.meta_entry_size,
                                       e.offset + hdr.meta_entry_size + e.comp_len)
                      kept == {i \in 1..Len(entries) :
                                 Len(Data(entries[i])) = entries[i].comp_len}
                      values == [i \in 1..Len(entries) |->
                                   << Data(entries[i]), entries[i].raw_len >>]
                  IN  DictOfEntries(entries, kept, values)

read_bundle_meta(file) ==
    IF ~file.exists THEN << >>
    ELSE LET hdr == _parse_header(Slice(file.data, 0, HEADER_SIZE_V2))
         IN  IF ~hdr.ok THEN << >>
             ELSE IF hdr.version = BUNDLE_VERSION_1 \/ hdr.meta_entry_size = 0 THEN << >>
             ELSE IF hdr.count = 0 THEN << >>
             ELSE LET entries == IndexEntries(file.data, hdr)
                      Block(e) == Slice(file.data, e.offset, e.offset + hdr.meta_entry_size)
                      kept == {i \in 1..Len(entries) :
                                 Len(Block(entries[i])) = hdr.meta_entry_size}
                      values == [i \in 1..Len(entries) |-> _decode_meta(Block(entries[i]))]
                  IN  DictOfEntries(entries, kept, values)

\* write_bundle, the buffers it builds before it touches the file system.
\* chapters: index_num -> << compressed, raw_len >>; meta: index_num -> ChapterMeta.
MetaBlockFor(meta, index_num) ==
    IF index_num \in DOMAIN meta THEN _encode_meta(meta[index_num]) ELSE _EMPTY_META_BLOCK

RECURSIVE BlockOffset_no_meta(_, _, _)
\* Mutant: current_offset advances by the compressed length only.
BlockOffset_no_meta(chapters, sorted_indices, k) ==
    IF k = 1 THEN HEADER_SIZE_V2 + Len(sorted_indices) * ENTRY_SIZE
    ELSE BlockOffset_no_meta(chapters, sorted_indices, k - 1)
         + Len(chapters[sorted_indices[k - 1]][1])

RECURSIVE BlockOffset(_, _, _)
\* current_offset when the k-th (1-based) sorted entry is packed.
BlockOffset(chapters, sorted_indices, k) ==
    IF k = 1 THEN HEADER_SIZE_V2 + Len(sorted_indices) * ENTRY_SIZE
    ELSE BlockOffset(chapters, sorted_indices, k - 1)
         + META_ENTRY_SIZE + Len(chapters[sorted_indices[k - 1]][1])

BundleHeader(count) ==
    BUNDLE_MAGIC \o PackU32(BUNDLE_VERSION_2) \o PackU32(count)
    \o PackU16(META_ENTRY_SIZE) \o PackU16(0)

\* Mutant: the loop counter is packed where the chapter index belongs.
BundleIndexBuf_counter(chapters) ==
    LET sorted_indices == SortedSeq(DOMAIN chapters)
    IN  Concat([k \in 1..Len(sorted_indices) |->
                  PackU32(k - 1)
                  \o PackU32(BlockOffset(chapters, sorted_indices, k))
                  \o PackU32(Len(chapters[sorted_indices[k]][1]))
                  \o PackU32(chapters[sorted_indices[k]][2])])

BundleIndexBuf(chapters) ==
    LET sorted_indices == SortedSeq(DOMAIN chapters)
    IN  Concat([k \in 1..Len(sorted_indices) |->
                  PackU32(sorted_indices[k])
                  \o PackU32(BlockOffset(chapters, sorted_indices, k))
                  \o PackU32(Len(chapters[sorted_indices[k]][1]))
                  \o PackU32(chapters[sorted_indices[k]][2])])

RECURSIVE DataPartsFrom(_, _, _)
DataPartsFrom(chapters, meta, sorted_indices) ==
    IF sorted_indices = << >> THEN << >>
    ELSE << MetaBlockFor(meta, Head(sorted_indices)), chapters[Head(sorted_indices)][1] >>
         \o DataPartsFrom(chapters, meta, Tail(sorted_indices))

BundleDataParts(chapters, meta) ==
    DataPartsFrom(chapters, meta, SortedSeq(DOMAIN chapters))

\* The f.write calls of write_bundle, in order.
BundleWrites(chapters, meta) ==
    << BundleHeader(Cardinality(DOMAIN chapters)), BundleIndexBuf(chapters) >>
    \o BundleDataParts(chapters, meta)

\* The complete file write_bundle produces.
BundleBytes(chapters, meta) == Concat(BundleWrites(chapters, meta))

\* v1 layout (bundle.py module docstring): 12-byte header, 16-byte index
\* entries whose offset points at the compressed data, then the data.
RECURSIVE V1Offset(_, _, _)
V1Offset(chapters, sorted_indices, k) ==
    IF k = 1 THEN HEADER_SIZE_V1 + Len(sorted_indices) * ENTRY_SIZE
    ELSE V1Offset(chapters, sorted_indices, k - 1) + Len(chapters[sorted_indices[k - 1]][1])

V1BundleBytes(chapters) ==
    LET sorted_indices == SortedSeq(DOMAIN chapters)
    IN  BUNDLE_MAGIC \o PackU32(BUNDLE_VERSION_1) \o PackU32(Len(sorted_indices))
        \o Concat([k \in 1..Len(sorted_indices) |->
                     PackU32(sorted_indices[k])
                     \o PackU32(V1Offset(chapters, sorted_indices, k))
                     \o PackU32(Len(chapters[sorted_indices[k]][1]))
                     \o PackU32(chapters[sorted_indices[k]][2])])
        \o Concat([k \in 1..Len(sorted_indices) |-> chapters[sorted_indices[k]][1]])

(* ------------------------------ upstream ------------------------------ *)

Sources == {"mtc", "ttv", "tf"}

\* How the upstream answers the request for one chapter:
\*   ok        200 with a chapter that decrypts / parses
\*   notfound  404
\*   error     transport error or non-200 after the client's retries
\*   empty     200, MTC content field empty / HTML without the chapter container
\*   garbled   200, MTC content that does not decrypt / HTML the parser rejects
FaultKinds == {"notfound", "error", "empty", "garbled"}

Kinds == {"ok"} \cup FaultKinds

\* The upstream chapter id of the chapter at position i (ids differ from indices).
ChapterIdOf(i) == 10 + i

\* An id no upstream chapter has (a stale pointer): its GET answers 404.
StaleId == ChapterIdOf(0)

TitleOf(index) == << 67, 432, 48 + index >>

SlugOf(index) == << 99, 48 + index >>

BodyOf(index) == << 98, 48 + index >>

\* A chain of n chapters, indices 1..n, linked both ways; 0 is "no pointer".
ChainOf(n, kinds) ==
    [id \in {ChapterIdOf(i) : i \in 1..n} |->
        LET i == id - ChapterIdOf(0)
        IN  [index |-> i,
             next |-> IF i < n THEN ChapterIdOf(i + 1) ELSE 0,
             previous |-> IF i > 1 THEN ChapterIdOf(i - 1) ELSE 0,
             kind |-> kinds[i]]]

KindsUpTo(n) ==
    {k \in [1..n -> Kinds] : Cardinality({i \in 1..n : k[i] # "ok"}) <= MaxFaults}

\* AsyncBookClient._get as seen by its caller: the data, FileNotFoundError
\* (404) or APIError (anything else that failed).
GetStatus(up, id) ==
    IF id \notin DOMAIN up THEN "notfound"
    ELSE IF up[id].kind \in {"notfound", "error"} THEN up[id].kind
    ELSE "ok"

(* --------------------------- chapter records -------------------------- *)

ChapterData(index, title, slug, body, word_count, chapter_id) ==
    [index |-> index, title |-> title, slug |-> slug, body |-> body,
     word_count |-> word_count, chapter_id |-> chapter_id]

\* ChapterCompressor.compress: (zstd frame, len(raw)).  The frame is kept
\* abstract: the zstd magic followed by the raw bytes, injective in the body.
Compress(body) ==
    << << 40, 181, 47, 253 >> \o Utf8Encode(body), Len(Utf8Encode(body)) >>

\* MTCSource._decrypt: << >> for None, else the one ChapterData.
_decrypt(id, chapter) ==
    IF chapter.kind = "empty" THEN << >>
    ELSE IF chapter.kind = "garbled" THEN << >>
    ELSE << ChapterData(chapter.index, TitleOf(chapter.index), SlugOf(chapter.index),
                        BodyOf(chapter.index), chapter.index, id) >>

Log(seq, x) == IF Len(seq) < MaxLog THEN Append(seq, x) ELSE seq

RECURSIVE LogAll(_, _)
LogAll(seq, items) ==
    IF items = << >> THEN seq ELSE LogAll(Log(seq, Head(items)), Tail(items))

(* ------------------------------ MTC walk ------------------------------ *)

PlanResult(walk_id, reverse, raised, requested) ==
    [walk_id |-> walk_id, reverse |-> reverse, raised |-> raised, requested |-> requested]

\* Mutant: every failure of the anchor request falls through to reverse.
_plan_resume_reverse_on_error(up, stored_id, max_idx, first_chapter, latest_chapter) ==
    LET status == GetStatus(up, stored_id)
    IN  IF status = "ok"
        THEN IF up[stored_id].index # max_idx
             THEN PlanResult(0, FALSE, "", << stored_id >>)
             ELSE PlanResult(up[stored_id].next, FALSE, "", << stored_id >>)
        ELSE PlanResult(latest_chapter, TRUE, "", << stored_id >>)

\* MTCSource._plan_resume; None is 0.
_plan_resume(up, stored_id, max_idx, first_chapter, latest_chapter) ==
    LET status == GetStatus(up, stored_id)
    IN  IF status = "ok"
        THEN IF up[stored_id].index # max_idx
             THEN PlanResult(0, FALSE, "", << stored_id >>)
             ELSE PlanResult(up[stored_id].next, FALSE, "", << stored_id >>)
        ELSE IF status = "notfound"
        THEN IF latest_chapter # 0
             THEN PlanResult(latest_chapter, TRUE, "", << stored_id >>)
             ELSE PlanResult(first_chapter, FALSE, "", << stored_id >>)
        ELSE PlanResult(first_chapter, FALSE, "", << stored_id >>)

\* MTCSource._plan_walk.  last_meta is a ChapterMeta (always truthy); reading
\* an attribute the dataclass does not have raises AttributeError.
_plan_walk(up, first_chapter, latest_chapter, existing, file) ==
    IF existing = {} THEN PlanResult(first_chapter, FALSE, "", << >>)
    ELSE LET max_bundle_idx == SetMax(existing)
             bundle_meta_map == read_bundle_meta(file)
             NoPointer == IF latest_chapter # 0
                          THEN PlanResult(latest_chapter, TRUE, "", << >>)
                          ELSE PlanResult(first_chapter, FALSE, "", << >>)
         IN  IF max_bundle_idx \in DOMAIN bundle_meta_map
             THEN LET last_meta == bundle_meta_map[max_bundle_idx]
                  IN  IF "chapter_id" \notin DOMAIN last_meta
                      THEN PlanResult(0, FALSE, "AttributeError", << >>)
                      ELSE IF last_meta.chapter_id # 0
                      THEN _plan_resume(up, last_meta.chapter_id, max_bundle_idx,
                                        first_chapter, latest_chapter)
                      ELSE NoPointer
             ELSE NoPointer

IterResult(go_on, next_id, yield) ==
    [go_on |-> go_on, next_id |-> next_id, yield |-> yield]

\* Mutant: the forward walk without the `index in existing_indices` skip.
_walk_forward_noskip(up, id, existing) ==
    IF GetStatus(up, id) # "ok" THEN IterResult(FALSE, id, << >>)
    ELSE IterResult(up[id].next # 0, up[id].next, _decrypt(id, up[id]))

\* Mutant: a chapter that does not decrypt ends the forward walk.
_walk_forward_stop_on_failure(up, id, existing) ==
    IF GetStatus(up, id) # "ok" THEN IterResult(FALSE, id, << >>)
    ELSE LET chapter == up[id]
         IN  IF chapter.index \in existing
             THEN IterResult(chapter.next # 0, chapter.next, << >>)
             ELSE IterResult(chapter.next # 0 /\ _decrypt(id, chapter) # << >>,
                             chapter.next, _decrypt(id, chapter))

\* One iteration of the loop of MTCSource._walk_forward at ch_id.
_walk_forward(up, id, existing) ==
    IF GetStatus(up, id) # "ok" THEN IterResult(FALSE, id, << >>)
    ELSE LET chapter == up[id]
         IN  IterResult(chapter.next # 0, chapter.next,
                        IF chapter.index \in existing THEN << >>
                        ELSE _decrypt(id, chapter))

\* Mutant: the reverse walk skips a stored chapter and keeps walking.
_walk_reverse_nostop(up, id, existing) ==
    IF GetStatus(up, id) # "ok" THEN IterResult(FALSE, id, << >>)
    ELSE LET chapter == up[id]
         IN  IterResult(chapter.previous # 0, chapter.previous,
                        IF chapter.index \in existing THEN << >>
                        ELSE _decrypt(id, chapter))

\* One iteration of the loop of MTCSource._walk_reverse at ch_id.
_walk_reverse(up, id, existing) ==
    IF GetStatus(up, id) # "ok" THEN IterResult(FALSE, id, << >>)
    ELSE LET chapter == up[id]
         IN  IF chapter.index \in existing THEN IterResult(FALSE, id, << >>)
             ELSE IterResult(chapter.previous # 0, chapter.previous, _decrypt(id, chapter))

(* --------------------------- TTV / TF walk ---------------------------- *)

\* parse_chapter on the page of chuong-<idx>: << >> for None.
HtmlChapter(up, idx) ==
    IF up[ChapterIdOf(idx)].kind \in {"empty", "garbled"} THEN << >>
    ELSE << ChapterData(idx, TitleOf(idx), SlugOf(idx), BodyOf(idx), idx, 0) >>

FetchResult(requested, yield) == [requested |-> requested, yield |-> yield]

\* Mutant: the TTV loop without the `ch_idx in existing_indices` skip.
ttv_fetch_one_noskip(up, ch_idx, existing) ==
    IF GetStatus(up, ChapterIdOf(ch_idx)) # "ok"
    THEN FetchResult(<< ChapterIdOf(ch_idx) >>, << >>)
    ELSE FetchResult(<< ChapterIdOf(ch_idx) >>, HtmlChapter(up, ch_idx))

\* One iteration of the loop of TTVSource.fetch_chapters at ch_idx.
ttv_fetch_one(up, ch_idx, existing) ==
    IF ch_idx \in existing THEN FetchResult(<< >>, << >>)
    ELSE IF GetStatus(up, ChapterIdOf(ch_idx)) # "ok"
    THEN FetchResult(<< ChapterIdOf(ch_idx) >>, << >>)
    ELSE FetchResult(<< ChapterIdOf(ch_idx) >>, HtmlChapter(up, ch_idx))

_FETCH_BATCH_SIZE == 10

\* TFSource.fetch_chapters: the indices collected up front.
tf_to_fetch(chapter_count, existing) ==
    SortedSeq({idx \in 1..chapter_count : idx \notin existing})

\* TFSource._fetch_single_chapter: up to 3 requests while a 200 page does
\* not parse.
_fetch_single_chapter(up, ch_idx) ==
    IF GetStatus(up, ChapterIdOf(ch_idx)) # "ok"
    THEN FetchResult(<< ChapterIdOf(ch_idx) >>, << >>)
    ELSE IF HtmlChapter(up, ch_idx) # << >>
    THEN FetchResult(<< ChapterIdOf(ch_idx) >>, HtmlChapter(up, ch_idx))
    ELSE FetchResult([a \in 1..3 |-> ChapterIdOf(ch_idx)], << >>)

\* Mutant: the pacing without its 30 s cap.
tf_next_delay_uncapped(batch_delay, batch_errors, batch_len) ==
    IF batch_errors > batch_len \div 2 THEN batch_delay + 5
    ELSE IF batch_errors = 0 /\ batch_delay > 0 THEN MaxOf(batch_delay - 2, 0)
    ELSE batch_delay

\* batch_delay after a batch with batch_errors failures out of batch_len.
tf_next_delay(batch_delay, batch_errors, batch_len) ==
    IF batch_errors > batch_len \div 2 THEN MinOf(batch_delay + 5, 30)
    ELSE IF batch_errors = 0 /\ batch_delay > 0 THEN MaxOf(batch_delay - 2, 0)
    ELSE batch_delay


(* ------------------------------- state -------------------------------- *)

VARIABLES
    source,             \* which BookSource ingests the book
    upstream,           \* chapter id -> [index, next, previous, kind]
    book,               \* upstream book metadata: first_chapter, latest_chapter, chapter_count
    changed,            \* the upstream changed after the first run
    run,                \* number of ingestion runs started
    pc,                 \* position of the ingestion of the book
    existing_indices,   \* fetch_chapters argument
    stored_chapter_id,  \* _plan_resume arguments
    max_bundle_idx,
    walk_chapter_id,    \* fetch_chapters locals
    walk_reverse,
    ch_id,              \* _walk_forward / _walk_reverse local
    ch_idx,             \* TTV loop variable
    to_fetch,           \* TF locals
    batch_start,
    batch_delay,
    yielded,            \* ChapterData records yielded by fetch_chapters in this run
    requests,           \* chapter ids requested by fetch_chapters in this run
    outcome,            \* how the last step of the run ended, as its caller sees it
    bundle_file,        \* <compressed_dir>/<book_id>.bundle
    tmp_file,           \* the mkstemp file of write_bundle
    old_file,           \* bundle_file when the last write_bundle was entered
    w_chapters,         \* write_bundle arguments
    w_meta,
    w_queue,            \* f.write calls still to come
    known_ids,          \* index -> chapter_id of the ChapterData handed to the writer
    write_failed,       \* a write_bundle of this book raised
    seen,               \* what a concurrent reader got when it opened the bundle path
    http_client,        \* the source's HTTP client: max_concurrent, retries
    calls,              \* task -> state of its GET on that client
    api_chapter,        \* the chapter dict given to decrypt_chapter
    verify,             \* decrypt_content's verify argument
    dec_result,         \* what the decryption returned or raised
    db,                 \* the SQLite index: its tables
    db_before,          \* db when the last db.py call or sweep step was entered
    db_call,            \* the last db.py call: its arguments and what it raised
    work,               \* migrate_v2: what scan_bundles decided for the bundle
    book_entry,         \* download_book's plan entry
    dl,                 \* download_book's locals
    output,             \* crawler/output/<book_id>: metadata.json and chapter files
    pool,               \* a batch runner: its queue, worker tasks and results
    catalog,            \* refresh_catalog: the plan, the fetch results and the stats
    proc                \* the Python processes that parsed TF pages: their str hash

vars ==
    << source, upstream, book, changed, run, pc, existing_indices, stored_chapter_id,
       max_bundle_idx, walk_chapter_id, walk_reverse, ch_id, ch_idx, to_fetch,
       batch_start, batch_delay, yielded, requests, outcome, bundle_file, tmp_file,
       old_file, w_chapters, w_meta, w_queue, known_ids, write_failed, seen,
       http_client, calls, api_chapter, verify, dec_result, db, db_before, db_call,
       work, book_entry, dl, output, pool, catalog, proc >>

fetchVars ==
    << existing_indices, stored_chapter_id, max_bundle_idx, walk_chapter_id,
       walk_reverse, ch_id, ch_idx, to_fetch, batch_start, batch_delay >>

fileVars ==
    << bundle_file, tmp_file, old_file, w_chapters, w_meta, w_queue, known_ids,
       write_failed, seen >>

worldVars == << source, upstream, book, changed >>

clientVars == << http_client, calls >>

decryptVars == << api_chapter, verify, dec_result >>

toolVars == << db, db_before, db_call, work, book_entry, dl, output >>

jobVars == << pool, catalog, proc >>

\* No GET and no stand-alone decryption is part of the behaviour.
NoCalls ==
    /\ http_client = [max_concurrent |-> 1, retries |-> 0]
    /\ calls = << >>
    /\ api_chapter = << >>
    /\ verify = FALSE
    /\ dec_result = << >>

\* The index as open_db finds it before the first ingestion.
EmptyDb ==
    [books |-> {}, chapters |-> {}, authors |-> {}, genres |-> {}, tags |-> {},
     book_genres |-> {}, book_tags |-> {}]

\* No db.py call, no migration sweep and no download_book is part of the behaviour.
NoTools ==
    /\ db = EmptyDb
    /\ db_before = EmptyDb
    /\ db_call = << >>
    /\ work = << >>
    /\ book_entry = << >>
    /\ dl = << >>
    /\ output = << >>

\* No batch runner, catalog refresh or TF parsing process is part of the
\* behaviour.
NoJobs ==
    /\ pool = << >>
    /\ catalog = << >>
    /\ proc = << >>

NotOpened == [opened |-> FALSE, file |-> NoFile]

BookOf(n, latest_known) ==
    [first_chapter |-> ChapterIdOf(1),
     latest_chapter |-> IF latest_known THEN ChapterIdOf(n) ELSE 0,
     chapter_count |-> n]

\* A bundle left by an earlier v1 writer, holding the chapters of `stored`.
LegacyBundle(stored) ==
    IF stored = {} THEN NoFile
    ELSE FileOf(V1BundleBytes([i \in stored |-> Compress(BodyOf(i))]))

IdleLocals ==
    /\ existing_indices = {}
    /\ stored_chapter_id = 0
    /\ max_bundle_idx = 0
    /\ walk_chapter_id = 0
    /\ walk_reverse = FALSE
    /\ ch_id = 0
    /\ ch_idx = 0
    /\ to_fetch = << >>
    /\ batch_start = 0
    /\ batch_delay = 0
    /\ yielded = << >>
    /\ requests = << >>
    /\ outcome = "none"
    /\ tmp_file = NoFile
    /\ old_file = NoFile
    /\ w_chapters = << >>
    /\ w_meta = << >>
    /\ w_queue = << >>
    /\ known_ids = << >>
    /\ write_failed = FALSE
    /\ seen = NotOpened

\* The book before its first run of this model: an upstream chain of up to
\* MaxChapters chapters, and no bundle or a v1 bundle of some of them.
Init ==
    /\ source \in Sources
    /\ \E n \in 1..MaxChapters, kinds \in KindsUpTo(MaxChapters),
          latest_known \in BOOLEAN, stored \in SUBSET (1..MaxChapters) :
          /\ \A i \in (n + 1)..MaxChapters : kinds[i] = "ok"
          /\ stored \subseteq 1..n
          /\ source # "mtc" => latest_known
          /\ upstream = ChainOf(n, kinds)
          /\ book = BookOf(n, latest_known)
          /\ bundle_file = LegacyBundle(stored)
    /\ changed = FALSE
    /\ NoCalls
    /\ NoTools
    /\ NoJobs
    /\ run = 0
    /\ pc = "idle"
    /\ IdleLocals

(* ------------------------- engine: start a run ------------------------ *)

\* The engine reads the indices of the bundle; a bundle that holds as many
\* chapters as the upstream counts is already complete, else the engine
\* opens fetch_chapters.
StartRun ==
    /\ pc = "idle"
    /\ run < MaxRuns
    /\ run' = run + 1
    /\ existing_indices' = read_bundle_indices(bundle_file)
    /\ yielded' = << >>
    /\ requests' = << >>
    /\ seen' = NotOpened
    /\ IF Cardinality(read_bundle_indices(bundle_file)) = book.chapter_count
       THEN pc' = "idle" /\ outcome' = "already_complete"
       ELSE pc' = "fetch" /\ outcome' = "none"
    /\ UNCHANGED << worldVars, jobVars, clientVars, decryptVars, toolVars,
                    stored_chapter_id, max_bundle_idx, walk_chapter_id,
                    walk_reverse, ch_id, ch_idx, to_fetch, batch_start, batch_delay,
                    bundle_file, tmp_file, old_file, w_chapters, w_meta, w_queue,
                    known_ids, write_failed >>

\* The upstream publishes one more chapter between two runs.
UpstreamGrow ==
    /\ pc = "idle"
    /\ run >= 1
    /\ run < MaxRuns
    /\ ~changed
    /\ book.chapter_count < MaxChapters
    /\ LET n == book.chapter_count + 1
           kinds == [i \in 1..n |->
                       IF i < n THEN upstream[ChapterIdOf(i)].kind ELSE "ok"]
       IN  /\ upstream' = ChainOf(n, kinds)
           /\ book' = BookOf(n, book.latest_chapter # 0)
    /\ changed' = TRUE
    /\ UNCHANGED << source, jobVars, clientVars, decryptVars, toolVars,
                    run, pc, fetchVars, yielded, requests, outcome,
                    fileVars >>

(* --------------------------- MTC fetch_chapters ----------------------- *)

AfterPlan(plan) ==
    /\ walk_chapter_id' = plan.walk_id
    /\ walk_reverse' = plan.reverse
    /\ ch_id' = plan.walk_id
    /\ requests' = LogAll(requests, plan.requested)
    /\ outcome' = IF plan.raised # "" THEN plan.raised
                  ELSE IF plan.walk_id = 0 THEN "returned" ELSE outcome
    /\ pc' = IF plan.raised # "" \/ plan.walk_id = 0 THEN "fetched"
             ELSE IF plan.reverse THEN "walk_rev" ELSE "walk_fwd"

\* MTCSource.fetch_chapters up to the start of the walk.
PlanWalk ==
    /\ pc = "fetch"
    /\ source = "mtc"
    /\ AfterPlan(_plan_walk(upstream, book.first_chapter, book.latest_chapter,
                            existing_indices, bundle_file))
    /\ UNCHANGED << worldVars, jobVars, clientVars, decryptVars, toolVars,
                    run, existing_indices, stored_chapter_id, max_bundle_idx,
                    ch_idx, to_fetch, batch_start, batch_delay, yielded, fileVars >>

AfterIter(r) ==
    /\ requests' = Log(requests, ch_id)
    /\ yielded' = LogAll(yielded, r.yield)
    /\ ch_id' = r.next_id
    /\ pc' = IF r.go_on THEN pc ELSE "fetched"
    /\ outcome' = IF r.go_on THEN outcome ELSE "returned"
    /\ UNCHANGED << worldVars, jobVars, clientVars, decryptVars, toolVars,
                    run, existing_indices, stored_chapter_id, max_bundle_idx,
                    walk_chapter_id, walk_reverse, ch_idx, to_fetch, batch_start,
                    batch_delay, fileVars >>

WalkForwardStep ==
    /\ pc = "walk_fwd"
    /\ AfterIter(_walk_forward(upstream, ch_id, existing_indices))

WalkReverseStep ==
    /\ pc = "walk_rev"
    /\ AfterIter(_walk_reverse(upstream, ch_id, existing_indices))

(* --------------------------- TTV fetch_chapters ----------------------- *)

TTVStart ==
    /\ pc = "fetch"
    /\ source = "ttv"
    /\ ch_idx' = 1
    /\ pc' = IF book.chapter_count >= 1 THEN "ttv_loop" ELSE "fetched"
    /\ outcome' = IF book.chapter_count >= 1 THEN outcome ELSE "returned"
    /\ UNCHANGED << worldVars, jobVars, clientVars, decryptVars, toolVars,
                    run, existing_indices, stored_chapter_id, max_bundle_idx,
                    walk_chapter_id, walk_reverse, ch_id, to_fetch, batch_start,
                    batch_delay, yielded, requests, fileVars >>

TTVStep ==
    /\ pc = "ttv_loop"
    /\ LET r == ttv_fetch_one(upstream, ch_idx, existing_indices)
       IN  /\ requests' = LogAll(requests, r.requested)
           /\ yielded' = LogAll(yielded, r.yield)
    /\ ch_idx' = ch_idx + 1
    /\ pc' = IF ch_idx + 1 <= book.chapter_count THEN "ttv_loop" ELSE "fetched"
    /\ outcome' = IF ch_idx + 1 <= book.chapter_count THEN outcome ELSE "returned"
    /\ UNCHANGED << worldVars, jobVars, clientVars, decryptVars, toolVars,
                    run, existing_indices, stored_chapter_id, max_bundle_idx,
                    walk_chapter_id, walk_reverse, ch_id, to_fetch, batch_start,
                    batch_delay, fileVars >>

(* --------------------------- TF fetch_chapters ------------------------ *)

TFStart ==
    /\ pc = "fetch"
    /\ source = "tf"
    /\ to_fetch' = tf_to_fetch(book.chapter_count, existing_indices)
    /\ batch_start' = 0
    /\ batch_delay' = 0
    /\ pc' = IF to_fetch' = << >> THEN "fetched" ELSE "tf_loop"
    /\ outcome' = IF to_fetch' = << >> THEN "returned" ELSE outcome
    /\ UNCHANGED << worldVars, jobVars, clientVars, decryptVars, toolVars,
                    run, existing_indices, stored_chapter_id, max_bundle_idx,
                    walk_chapter_id, walk_reverse, ch_id, ch_idx, yielded, requests,
                    fileVars >>

\* One batch: the gather of _fetch_single_chapter, the pacing, the yields.
TFBatch ==
    /\ pc = "tf_loop"
    /\ LET batch == Slice(to_fetch, batch_start, batch_start + _FETCH_BATCH_SIZE)
           results == [k \in 1..Len(batch) |-> _fetch_single_chapter(upstream, batch[k])]
           batch_errors == Cardinality({k \in 1..Len(batch) : results[k].yield = << >>})
       IN  /\ requests' = LogAll(requests, Concat([k \in 1..Len(batch) |-> results[k].requested]))
           /\ yielded' = LogAll(yielded, Concat([k \in 1..Len(batch) |-> results[k].yield]))
           /\ batch_delay' = tf_next_delay(batch_delay, batch_errors, Len(batch))
    /\ batch_start' = batch_start + _FETCH_BATCH_SIZE
    /\ pc' = IF batch_start' < Len(to_fetch) THEN "tf_loop" ELSE "fetched"
    /\ outcome' = IF batch_start' < Len(to_fetch) THEN outcome ELSE "returned"
    /\ UNCHANGED << worldVars, jobVars, clientVars, decryptVars, toolVars,
                    run, existing_indices, stored_chapter_id, max_bundle_idx,
                    walk_chapter_id, walk_reverse, ch_id, ch_idx, to_fetch, fileVars >>

(* ------------------- engine: merge and write the bundle --------------- *)

\* The chapters of this run, compressed, over the raw bodies of the old file.
MergedChapters ==
    LET new == {yielded[k].index : k \in 1..Len(yielded)}
        Last(i) == yielded[SetMax({k \in 1..Len(yielded) : yielded[k].index = i})]
    IN  [i \in new |-> Compress(Last(i).body)] @@ read_bundle_raw(bundle_file)

MergedMeta ==
    LET new == {yielded[k].index : k \in 1..Len(yielded)}
        Last(i) == yielded[SetMax({k \in 1..Len(yielded) : yielded[k].index = i})]
    IN  [i \in new |-> ChapterMeta(Last(i).word_count, Last(i).title, Last(i).slug)]
        @@ read_bundle_meta(bundle_file)

YieldedIds ==
    LET new == {yielded[k].index : k \in 1..Len(yielded)}
        Last(i) == yielded[SetMax({k \in 1..Len(yielded) : yielded[k].index = i})]
    IN  [i \in new |-> Last(i).chapter_id]

\* Nothing was yielded: the run ends without a write.
SkipWrite ==
    /\ pc = "fetched"
    /\ yielded = << >>
    /\ pc' = "idle"
    /\ UNCHANGED << worldVars, jobVars, clientVars, decryptVars, toolVars,
                    run, fetchVars, yielded, requests, outcome, fileVars >>

\* write_bundle up to mkstemp: the buffers are built, the temp file is empty.
BeginWrite ==
    /\ pc = "fetched"
    /\ yielded # << >>
    /\ w_chapters' = MergedChapters
    /\ w_meta' = MergedMeta
    /\ known_ids' = YieldedIds @@ known_ids
    /\ old_file' = bundle_file
    /\ tmp_file' = FileOf(<< >>)
    /\ w_queue' = BundleWrites(MergedChapters, MergedMeta)
    /\ seen' = NotOpened
    /\ pc' = "writing"
    /\ UNCHANGED << worldVars, jobVars, clientVars, decryptVars, toolVars,
                    run, fetchVars, yielded, requests, outcome, bundle_file,
                    write_failed >>

\* Mutant: the parts are written straight into the bundle path.
WriteStep_in_place ==
    /\ pc = "writing"
    /\ w_queue # << >>
    /\ tmp_file' = FileOf(tmp_file.data \o Head(w_queue))
    /\ bundle_file' = FileOf(tmp_file.data \o Head(w_queue))
    /\ w_queue' = Tail(w_queue)
    /\ UNCHANGED << worldVars, jobVars, clientVars, decryptVars, toolVars,
                    run, pc, fetchVars, yielded, requests, outcome,
                    old_file, w_chapters, w_meta, known_ids, write_failed, seen >>

\* One f.write(part) into the temp file.
WriteStep ==
    /\ pc = "writing"
    /\ w_queue # << >>
    /\ tmp_file' = FileOf(tmp_file.data \o Head(w_queue))
    /\ w_queue' = Tail(w_queue)
    /\ UNCHANGED << worldVars, jobVars, clientVars, decryptVars, toolVars,
                    run, pc, fetchVars, yielded, requests, outcome, bundle_file,
                    old_file, w_chapters, w_meta, known_ids, write_failed, seen >>

\* The file is closed and os.replace moves it over the bundle path.
Replace ==
    /\ pc = "writing"
    /\ w_queue = << >>
    /\ bundle_file' = tmp_file
    /\ tmp_file' = NoFile
    /\ outcome' = "written"
    /\ pc' = "idle"
    /\ UNCHANGED << worldVars, jobVars, clientVars, decryptVars, toolVars,
                    run, fetchVars, yielded, requests, old_file, w_chapters,
                    w_meta, w_queue, known_ids, write_failed, seen >>

\* A write or the replace raises: the temp file is unlinked, the error propagates.
WriteFail ==
    /\ pc = "writing"
    /\ tmp_file' = NoFile
    /\ outcome' = "write_error"
    /\ write_failed' = TRUE
    /\ pc' = "idle"
    /\ UNCHANGED << worldVars, jobVars, clientVars, decryptVars, toolVars,
                    run, fetchVars, yielded, requests, bundle_file, old_file,
                    w_chapters, w_meta, w_queue, known_ids, seen >>

\* A BaseException that is no Exception (KeyboardInterrupt, SystemExit) is
\* raised inside the try block: `except Exception` does not match it, so it
\* propagates with the temp file left as it is; the interpreter unwinds.
WriteInterrupt ==
    /\ pc = "writing"
    /\ outcome' = "interrupted"
    /\ write_failed' = TRUE
    /\ pc' = "stopped"
    /\ UNCHANGED << worldVars, jobVars, clientVars, decryptVars, toolVars,
                    run, fetchVars, yielded, requests, bundle_file, tmp_file,
                    old_file, w_chapters, w_meta, w_queue, known_ids, seen >>

\* A concurrent reader opens the bundle path and gets the file that is there.
ReaderOpen ==
    /\ \/ pc \in {"writing", "stopped"}
       \/ (pc = "idle" /\ outcome \in {"written", "write_error"})
    /\ ~seen.opened
    /\ seen' = [opened |-> TRUE, file |-> bundle_file]
    /\ UNCHANGED << worldVars, jobVars, clientVars, decryptVars, toolVars,
                    run, pc, fetchVars, yielded, requests, outcome, bundle_file,
                    tmp_file, old_file, w_chapters, w_meta, w_queue, known_ids,
                    write_failed >>

Next ==
    \/ StartRun
    \/ UpstreamGrow
    \/ PlanWalk
    \/ WalkForwardStep
    \/ WalkReverseStep
    \/ TTVStart
    \/ TTVStep
    \/ TFStart
    \/ TFBatch
    \/ SkipWrite
    \/ BeginWrite
    \/ WriteStep
    \/ Replace
    \/ WriteFail
    \/ WriteInterrupt
    \/ ReaderOpen

Spec == Init /\ [][Next]_vars

(* ------------------- fetch_chapters from _plan_resume ----------------- *)

\* No write_bundle has been entered and no reader has opened the path.
NoWrite ==
    /\ tmp_file = NoFile
    /\ old_file = NoFile
    /\ w_chapters = << >>
    /\ w_meta = << >>
    /\ w_queue = << >>
    /\ known_ids = << >>
    /\ write_failed = FALSE
    /\ seen = NotOpened

NoHtmlLocals ==
    /\ ch_idx = 0
    /\ to_fetch = << >>
    /\ batch_start = 0
    /\ batch_delay = 0

\* MTCSource._plan_walk has read a chapter_id for max(existing_indices) and
\* calls _plan_resume with it: a chapter of the chain (whose index may or may
\* not be max_bundle_idx) or an id the upstream no longer has.
InitResume ==
    /\ source = "mtc"
    /\ \E n \in 1..MaxChapters, kinds \in KindsUpTo(MaxChapters),
          latest_known \in BOOLEAN, stored \in SUBSET (1..MaxChapters),
          anchor \in 0..MaxChapters :
          /\ \A i \in (n + 1)..MaxChapters : kinds[i] = "ok"
          /\ stored # {}
          /\ stored \subseteq 1..n
          /\ anchor <= n
          /\ upstream = ChainOf(n, kinds)
          /\ book = BookOf(n, latest_known)
          /\ existing_indices = stored
          /\ max_bundle_idx = SetMax(stored)
          /\ stored_chapter_id = ChapterIdOf(anchor)
          /\ bundle_file = FileOf(BundleBytes([i \in stored |-> Compress(BodyOf(i))], << >>))
    /\ changed = FALSE
    /\ NoCalls
    /\ NoTools
    /\ NoJobs
    /\ run = 1
    /\ pc = "resume"
    /\ walk_chapter_id = 0
    /\ walk_reverse = FALSE
    /\ ch_id = 0
    /\ yielded = << >>
    /\ requests = << >>
    /\ outcome = "none"
    /\ NoHtmlLocals
    /\ NoWrite

\* The call of _plan_resume and the rest of fetch_chapters up to the walk.
ResumeCall ==
    /\ pc = "resume"
    /\ AfterPlan(_plan_resume(upstream, stored_chapter_id, max_bundle_idx,
                              book.first_chapter, book.latest_chapter))
    /\ UNCHANGED << worldVars, jobVars, clientVars, decryptVars, toolVars,
                    run, existing_indices, stored_chapter_id, max_bundle_idx,
                    ch_idx, to_fetch, batch_start, batch_delay, yielded, fileVars >>

NextResume ==
    \/ ResumeCall
    \/ WalkForwardStep
    \/ WalkReverseStep

SpecResume == InitResume /\ [][NextResume]_vars

(* ----------------- _walk_forward over any next pointers --------------- *)

\* The chain with its next pointers replaced by nxt (position -> position,
\* 0 for none).
Relinked(up, nxt) ==
    [id \in DOMAIN up |->
        [up[id] EXCEPT !.next = IF nxt[up[id].index] = 0 THEN 0
                                 ELSE ChapterIdOf(nxt[up[id].index])]]

\* _walk_forward is entered at first_chapter; the upstream may answer with
\* the id of any other of its chapters as next pointer.
InitWalk ==
    /\ source = "mtc"
    /\ \E n \in 1..MaxChapters, kinds \in KindsUpTo(MaxChapters),
          nxt \in [1..MaxChapters -> 0..MaxChapters], stored \in SUBSET (1..MaxChapters) :
          /\ \A i \in (n + 1)..MaxChapters : kinds[i] = "ok" /\ nxt[i] = 0
          /\ \A i \in 1..n : nxt[i] <= n /\ nxt[i] # i
          /\ stored \subseteq 1..n
          /\ upstream = Relinked(ChainOf(n, kinds), nxt)
          /\ book = BookOf(n, FALSE)
          /\ existing_indices = stored
          /\ bundle_file = LegacyBundle(stored)
    /\ changed = FALSE
    /\ NoCalls
    /\ NoTools
    /\ NoJobs
    /\ run = 1
    /\ pc = "walk_fwd"
    /\ stored_chapter_id = 0
    /\ max_bundle_idx = 0
    /\ walk_chapter_id = book.first_chapter
    /\ walk_reverse = FALSE
    /\ ch_id = book.first_chapter
    /\ yielded = << >>
    /\ requests = << >>
    /\ outcome = "none"
    /\ NoHtmlLocals
    /\ NoWrite

NextWalk == WalkForwardStep

\* The event loop keeps running the generator while its loop can iterate.
FairWalk == InitWalk /\ [][NextWalk]_vars /\ WF_vars(WalkForwardStep)

(* ------------------- the codec on chosen inputs ----------------------- *)

\* n times the letter "a".
AsciiRun(n) == [k \in 1..n |-> 97]

\* Titles handed to the writer: none, a short one, and titles whose UTF-8
\* form ends at, before or across the _META_TITLE_MAX boundary with a one-,
\* two- (U+01B0) or three-byte (U+1EC7) last character.
CodecTitles ==
    { << >>,
      TitleOf(1),
      AsciiRun(_META_TITLE_MAX),
      AsciiRun(_META_TITLE_MAX + 1),
      AsciiRun(_META_TITLE_MAX - 2) \o << 432 >>,
      AsciiRun(_META_TITLE_MAX - 1) \o << 432 >>,
      AsciiRun(_META_TITLE_MAX - 3) \o << 7879 >>,
      AsciiRun(_META_TITLE_MAX - 2) \o << 7879 >>,
      AsciiRun(_META_TITLE_MAX - 1) \o << 7879 >> }

CodecWordCounts == {0, 1, 256 * 256 + 2}

\* No fetch_chapters call is part of the behaviour.
NoFetch ==
    /\ existing_indices = {}
    /\ stored_chapter_id = 0
    /\ max_bundle_idx = 0
    /\ walk_chapter_id = 0
    /\ walk_reverse = FALSE
    /\ ch_id = 0
    /\ yielded = << >>
    /\ requests = << >>
    /\ NoHtmlLocals

\* write_bundle is about to be called on a fresh path with chapters of some
\* indices, some of them with metadata.
InitCodec ==
    /\ source = "mtc"
    /\ upstream = ChainOf(MaxChapters, [i \in 1..MaxChapters |-> "ok"])
    /\ book = BookOf(MaxChapters, TRUE)
    /\ changed = FALSE
    /\ NoCalls
    /\ NoTools
    /\ NoJobs
    /\ run = 1
    /\ pc = "codec"
    /\ outcome = "none"
    /\ NoFetch
    /\ bundle_file = NoFile
    /\ tmp_file = NoFile
    /\ old_file = NoFile
    /\ w_queue = << >>
    /\ known_ids = << >>
    /\ write_failed = FALSE
    /\ seen = NotOpened
    /\ \E indices \in SUBSET (1..MaxChapters), with_meta \in SUBSET (1..MaxChapters),
          title \in CodecTitles, word_count \in CodecWordCounts :
          /\ indices # {}
          /\ with_meta \subseteq indices
          /\ w_chapters = [i \in indices |-> Compress(BodyOf(i))]
          /\ w_meta = [i \in with_meta |->
                         ChapterMeta(word_count + i, title, SlugOf(i))]

\* write_bundle(path, chapters, meta), start to return.
CodecWrite ==
    /\ pc = "codec"
    /\ old_file' = bundle_file
    /\ bundle_file' = FileOf(BundleBytes(w_chapters, w_meta))
    /\ outcome' = "written"
    /\ pc' = "codec_written"
    /\ UNCHANGED << worldVars, jobVars, clientVars, decryptVars, toolVars,
                    run, fetchVars, yielded, requests, tmp_file, w_chapters,
                    w_meta, w_queue, known_ids, write_failed, seen >>

\* write_bundle(path, read_bundle_raw(path), read_bundle_meta(path)).
CodecRewrite ==
    /\ pc = "codec_written"
    /\ old_file' = bundle_file
    /\ w_chapters' = read_bundle_raw(bundle_file)
    /\ w_meta' = read_bundle_meta(bundle_file)
    /\ bundle_file' = FileOf(BundleBytes(read_bundle_raw(bundle_file),
                                         read_bundle_meta(bundle_file)))
    /\ pc' = "codec_rewritten"
    /\ UNCHANGED << worldVars, jobVars, clientVars, decryptVars, toolVars,
                    run, fetchVars, yielded, requests, outcome, tmp_file,
                    w_queue, known_ids, write_failed, seen >>

NextCodec ==
    \/ CodecWrite
    \/ CodecRewrite

SpecCodec == InitCodec /\ [][NextCodec]_vars

(* -------------------------- TF batch pacing ---------------------------- *)
\* TFSource.fetch_chapters on books of several batches, where each batch
\* has no failing chapter, half of its chapters failing, or one more.

\* Enough batches for the delay to climb from 0 to its cap in steps of 5,
\* and one more.
MaxBatches == 30 \div 5 + 1

FailLevels == {"none", "half", "most"}

FailCount(level, len) ==
    IF level = "none" THEN 0
    ELSE IF level = "half" THEN len \div 2
    ELSE len \div 2 + 1

\* The kinds of n chapters whose batch b fails at levels[b]: odd batches by
\* errors of the client, even ones by pages without the chapter container.
PacedKinds(n, levels) ==
    [i \in 1..n |->
        LET b   == (i - 1) \div _FETCH_BATCH_SIZE + 1
            len == MinOf(_FETCH_BATCH_SIZE, n - (b - 1) * _FETCH_BATCH_SIZE)
        IN  IF (i - 1) % _FETCH_BATCH_SIZE < FailCount(levels[b], len)
            THEN (IF b % 2 = 1 THEN "error" ELSE "empty") ELSE "ok"]

InitPacing ==
    /\ source = "tf"
    /\ \E nb \in 1..MaxBatches, short \in {0, 7} :
       \E levels \in [1..nb -> FailLevels] :
          /\ LET n == nb * _FETCH_BATCH_SIZE - short
             IN  /\ upstream = ChainOf(n, PacedKinds(n, levels))
                 /\ book = BookOf(n, TRUE)
    /\ changed = FALSE
    /\ NoCalls
    /\ NoTools
    /\ NoJobs
    /\ run = 1
    /\ pc = "fetch"
    /\ NoFetch
    /\ outcome = "none"
    /\ bundle_file = NoFile
    /\ NoWrite

NextPacing == TFStart \/ TFBatch

SpecPacing == InitPacing /\ [][NextPacing]_vars

(* ----------------------- source HTTP clients --------------------------- *)
\* One client per source (AsyncBookClient for MTC, _AsyncTFClient,
\* _AsyncTTVClient; AsyncTangThuVienClient.get of crawler-tangthuvien has
\* the structure of _AsyncTTVClient.get).  Book workers call it
\* concurrently; a call is a fetch_book_metadata or a download_cover.

MaxRetries == 2

Tasks == {"w1", "w2"}

Ops == {"metadata", "cover"}

\* Retry-After texts: "1", "99" and the start of an HTTP-date, "Wed".
RetryAfterTexts == { << 49 >>, << 57, 57 >>, << 87, 101, 100 >> }

Bodies == {"book", "other_book", "not_success"}

Response(status, has_retry_after, retry_after, body) ==
    [status |-> status, has_retry_after |-> has_retry_after,
     retry_after |-> retry_after, body |-> body]

\* What the upstream can answer to one request; status 0 stands for an
\* httpx.TransportError (no response at all).
Responses ==
    {Response(s, FALSE, << >>, "book") : s \in {0, 404, 429, 500, 503}}
        \cup {Response(429, TRUE, t, "book") : t \in RetryAfterTexts}
        \cup {Response(200, FALSE, << >>, b) : b \in Bodies}

RECURSIVE DecValue(_)
DecValue(text) ==
    IF text = << >> THEN 0
    ELSE 10 * DecValue(SubSeq(text, 1, Len(text) - 1)) + (text[Len(text)] - 48)

\* int(text) of a header value; -1 stands for the ValueError it raises.
ParseInt(text) ==
    IF text # << >> /\ \A i \in 1..Len(text) : text[i] \in 48..57
    THEN DecValue(text)
    ELSE -1

\* random.uniform(a, b), by its two ends.
Uniform(a, b) == {a, b}

NewCall(op) ==
    [op |-> op, pc |-> "start", attempt |-> 0, holds |-> FALSE, wait |-> 0,
     why |-> "none", result |-> "none", data |-> "none", reported |-> "none",
     sent |-> 0]

Raise(c, exc) ==
    [c EXCEPT !.pc = "returned", !.holds = FALSE, !.result = exc]

Return(c, body) ==
    [c EXCEPT !.pc = "returned", !.holds = FALSE, !.result = "ok", !.data = body]

\* `if attempt < retries - 1: await asyncio.sleep(wait); continue` else raise.
SleepOrRaise(c, retries, why, waits, holding, exc) ==
    IF c.attempt < retries - 1
    THEN {[c EXCEPT !.pc = "backoff", !.why = why, !.wait = w, !.holds = holding] :
              w \in waits}
    ELSE {Raise(c, exc)}

\* The head of `for attempt in range(retries)`, up to its first await.
LoopHead(kind, retries, c) ==
    IF c.attempt >= retries
    THEN Raise(c, IF kind = "mtc" THEN "APIError"
                  ELSE IF kind = "tf" THEN "TFFetchError" ELSE "TTVFetchError")
    ELSE IF kind = "mtc" THEN [c EXCEPT !.pc = "acquire", !.holds = FALSE]
    ELSE IF kind = "tf" THEN [c EXCEPT !.pc = "delay", !.holds = FALSE]
    ELSE [c EXCEPT !.pc = "delay"]

\* AsyncBookClient._get after `await self._client.get(...)`.
api_get(retries, c, r) ==
    IF r.status = 0
    THEN SleepOrRaise(c, retries, "transport", {2 ^ (c.attempt + 1)}, TRUE, "APIError")
    ELSE IF r.status = 429
    THEN LET wait == IF r.has_retry_after THEN ParseInt(r.retry_after)
                     ELSE 2 ^ (c.attempt + 2)
         IN  IF wait < 0 THEN {Raise(c, "ValueError")}
             ELSE SleepOrRaise(c, retries, "429", {wait}, FALSE, "APIError")
    ELSE IF r.status = 404 THEN {Raise(c, "FileNotFoundError")}
    ELSE IF r.status # 200
    THEN SleepOrRaise(c, retries, "status", {2 ^ (c.attempt + 1)}, FALSE, "APIError")
    ELSE IF r.body = "not_success" THEN {Raise(c, "APIError")}
    ELSE {Return(c, r.body)}

\* _AsyncTFClient.get after `await self._client.get(...)`.
tf_get(retries, c, r) ==
    IF r.status = 0
    THEN SleepOrRaise(c, retries, "transport", Uniform(3, 10), TRUE, "TFFetchError")
    ELSE IF r.status = 429
    THEN LET server_wait == IF r.has_retry_after THEN ParseInt(r.retry_after) ELSE 5
         IN  IF server_wait < 0 THEN {Raise(c, "ValueError")}
             ELSE SleepOrRaise(c, retries, "429",
                               {server_wait + j : j \in Uniform(1, 5)}, FALSE,
                               "TFFetchError")
    ELSE IF r.status = 404 THEN {Raise(c, "TFNotFound")}
    ELSE IF r.status # 200
    THEN SleepOrRaise(c, retries, "status", Uniform(3, 10), FALSE, "TFFetchError")
    ELSE {Return(c, r.body)}

\* _AsyncTTVClient.get after `await self._client.get(...)`: the whole loop
\* is inside `async with self._sem`.
ttv_get(retries, c, r) ==
    IF r.status = 0
    THEN SleepOrRaise(c, retries, "transport", {2 ^ (c.attempt + 1)}, TRUE, "TTVFetchError")
    ELSE IF r.status = 429
    THEN LET wait == IF r.has_retry_after THEN ParseInt(r.retry_after)
                     ELSE 2 ^ (c.attempt + 2)
         IN  IF wait < 0 THEN {Raise(c, "ValueError")}
             ELSE SleepOrRaise(c, retries, "429", {wait}, TRUE, "TTVFetchError")
    ELSE IF r.status = 404 THEN {Raise(c, "TTVNotFound")}
    ELSE IF r.status # 200
    THEN SleepOrRaise(c, retries, "status", {2 ^ (c.attempt + 1)}, TRUE, "TTVFetchError")
    ELSE {Return(c, r.body)}

client_get(kind, retries, c, r) ==
    IF kind = "mtc" THEN api_get(retries, c, r)
    ELSE IF kind = "tf" THEN tf_get(retries, c, r)
    ELSE ttv_get(retries, c, r)

\* What fetch_book_metadata hands to its caller: "meta", "None", or the
\* exception that escapes it.
fetch_book_metadata(kind, c) ==
    IF kind = "mtc"
    THEN IF c.result = "ok" /\ c.data = "book" THEN "meta" ELSE "None"
    ELSE IF c.result = "ok" THEN "meta"
    ELSE IF c.result = "ValueError" THEN "ValueError"
    ELSE "None"

\* What download_cover hands to its caller.
download_cover(kind, c) ==
    IF kind = "mtc"
    THEN IF c.result = "ok" THEN "path" ELSE "None"
    ELSE IF c.result = "ok" THEN "path"
    ELSE IF c.result \in {"ValueError", "TFNotFound", "TTVNotFound"} /\ kind = "ttv"
    THEN c.result
    ELSE IF c.result = "ValueError" THEN "ValueError"
    ELSE "None"

Holders == {t \in DOMAIN calls : calls[t].holds}

InFlight == {t \in DOMAIN calls : calls[t].pc = "request"}

Sleeping == {t \in DOMAIN calls : calls[t].pc \in {"delay", "backoff"}}

\* asyncio.Semaphore(max_concurrent) has a free permit.
SemFree == Cardinality(Holders) < http_client.max_concurrent

\* The first await of a call.  MTCSource.download_cover hands the bare httpx
\* client to cover.download_cover, which awaits client.get(url) directly.
StartCall(kind, retries, op) ==
    IF kind = "mtc" /\ op = "cover"
    THEN [NewCall(op) EXCEPT !.pc = "request", !.sent = 1]
    ELSE IF kind = "ttv" THEN [NewCall(op) EXCEPT !.pc = "acquire"]
    ELSE LoopHead(kind, retries, NewCall(op))

InitClient ==
    /\ upstream = ChainOf(MaxChapters, [i \in 1..MaxChapters |-> "ok"])
    /\ book = BookOf(MaxChapters, TRUE)
    /\ changed = FALSE
    /\ run = 1
    /\ pc = "client"
    /\ NoFetch
    /\ outcome = "none"
    /\ bundle_file = NoFile
    /\ NoWrite
    /\ \E kind \in Sources, mc \in 1..Cardinality(Tasks), retries \in 0..MaxRetries :
           /\ source = kind
           /\ http_client = [max_concurrent |-> mc, retries |-> retries]
           /\ \E ops \in [Tasks -> Ops] :
                  calls = [t \in Tasks |-> NewCall(ops[t])]
    /\ api_chapter = << >>
    /\ verify = FALSE
    /\ dec_result = << >>
    /\ NoTools
    /\ NoJobs

\* A book worker calls fetch_book_metadata or download_cover.
Invoke(t) ==
    /\ pc = "client"
    /\ calls[t].pc = "start"
    /\ calls' = [calls EXCEPT ![t] = StartCall(source, http_client.retries, @.op)]
    /\ UNCHANGED << worldVars, jobVars, decryptVars, toolVars, http_client,
                    run, pc, fetchVars, yielded, requests,
                    outcome, fileVars >>

\* `async with self._sem` is entered.
Acquire(t) ==
    /\ pc = "client"
    /\ calls[t].pc = "acquire"
    /\ SemFree
    /\ LET kind == source
           c    == [calls[t] EXCEPT !.holds = TRUE]
       IN  calls' = [calls EXCEPT ![t] =
               IF kind = "mtc" THEN [c EXCEPT !.pc = "delay"]
               ELSE IF kind = "tf"
               THEN [c EXCEPT !.pc = "request",
                              !.sent = MinOf(c.sent + 1, http_client.retries + 1)]
               ELSE LoopHead(kind, http_client.retries, c)]
    /\ UNCHANGED << worldVars, jobVars, decryptVars, toolVars, http_client,
                    run, pc, fetchVars, yielded, requests,
                    outcome, fileVars >>

\* `await asyncio.sleep(delay)` at the head of an attempt is over.
DelayDone(t) ==
    /\ pc = "client"
    /\ calls[t].pc = "delay"
    /\ calls' = [calls EXCEPT ![t] =
           IF source = "tf" THEN [@ EXCEPT !.pc = "acquire"]
           ELSE [@ EXCEPT !.pc = "request",
                          !.sent = MinOf(@ + 1, http_client.retries + 1)]]
    /\ UNCHANGED << worldVars, jobVars, decryptVars, toolVars, http_client,
                    run, pc, fetchVars, yielded, requests,
                    outcome, fileVars >>

\* `await self._client.get(...)` is over: a response or a transport error.
Respond(t) ==
    /\ pc = "client"
    /\ calls[t].pc = "request"
    /\ ~(source = "mtc" /\ calls[t].op = "cover")
    /\ \E r \in Responses :
       \E c \in client_get(source, http_client.retries, calls[t], r) :
           calls' = [calls EXCEPT ![t] = c]
    /\ UNCHANGED << worldVars, jobVars, decryptVars, toolVars, http_client,
                    run, pc, fetchVars, yielded, requests,
                    outcome, fileVars >>

\* cover.download_cover: `r = await client.get(poster, ...)` is over.
CoverRespond(t) ==
    /\ pc = "client"
    /\ calls[t].pc = "request"
    /\ source = "mtc" /\ calls[t].op = "cover"
    /\ \E r \in Responses :
           calls' = [calls EXCEPT ![t] =
               IF r.status = 200 THEN Return(@, r.body) ELSE Raise(@, "Exception")]
    /\ UNCHANGED << worldVars, jobVars, decryptVars, toolVars, http_client,
                    run, pc, fetchVars, yielded, requests,
                    outcome, fileVars >>

\* BackoffDone with a loop that tries again without counting the attempt.
BackoffDone_same_attempt(t) ==
    /\ pc = "client"
    /\ calls[t].pc = "backoff"
    /\ calls' = [calls EXCEPT ![t] =
           LoopHead(source, http_client.retries,
                    [@ EXCEPT !.why = "none", !.wait = 0,
                              !.holds = (source = "ttv")])]
    /\ UNCHANGED << worldVars, jobVars, decryptVars, toolVars, http_client,
                    run, pc, fetchVars, yielded, requests,
                    outcome, fileVars >>

\* The sleep before `continue` is over: the next attempt begins.
BackoffDone(t) ==
    /\ pc = "client"
    /\ calls[t].pc = "backoff"
    /\ calls' = [calls EXCEPT ![t] =
           LoopHead(source, http_client.retries,
                    [@ EXCEPT !.attempt = @ + 1, !.why = "none", !.wait = 0,
                              !.holds = (source = "ttv")])]
    /\ UNCHANGED << worldVars, jobVars, decryptVars, toolVars, http_client,
                    run, pc, fetchVars, yielded, requests,
                    outcome, fileVars >>

\* The GET returned or raised into fetch_book_metadata / download_cover.
CallerReturn(t) ==
    /\ pc = "client"
    /\ calls[t].pc = "returned"
    /\ LET c == calls[t]
       IN  calls' = [calls EXCEPT ![t] =
               [c EXCEPT !.pc = "done",
                         !.reported = IF c.op = "metadata"
                                      THEN fetch_book_metadata(source, c)
                                      ELSE download_cover(source, c)]]
    /\ UNCHANGED << worldVars, jobVars, decryptVars, toolVars, http_client,
                    run, pc, fetchVars, yielded, requests,
                    outcome, fileVars >>

TaskStep(t) ==
    \/ Invoke(t)
    \/ Acquire(t)
    \/ DelayDone(t)
    \/ Respond(t)
    \/ CoverRespond(t)
    \/ BackoffDone(t)
    \/ CallerReturn(t)

NextClient == \E t \in Tasks : TaskStep(t)

SpecClient == InitClient /\ [][NextClient]_vars

\* The event loop resumes every task whose await is over; every request
\* ends (httpx timeouts turn silence into a TransportError).
FairClient == SpecClient /\ \A t \in Tasks : WF_vars(TaskStep(t))

(* --------------------------- chapter decryption ------------------------ *)
\* decrypt.py (extract_key_and_envelope, verify_mac, decrypt_content) and
\* api.py decrypt_chapter.  A content string is described by what each stage
\* of the decryption finds in it; the decrypted text is a character string.

MaxText == 4

\* Space, newline, and two letters.
TextAlphabet == {32, 10, 97, 98}

IsSpace(c) == c \in {9, 10, 13, 32}

\* str.strip()
Strip(text) ==
    LET ink == {i \in 1..Len(text) : ~IsSpace(text[i])}
    IN  IF ink = {} THEN << >> ELSE SubSeq(text, SetMin(ink), SetMax(ink))

RECURSIVE SplitLines(_)
\* str.split("\n")
SplitLines(text) ==
    LET nl == {i \in 1..Len(text) : text[i] = 10}
    IN  IF nl = {} THEN << text >>
        ELSE << SubSeq(text, 1, SetMin(nl) - 1) >>
                 \o SplitLines(SubSeq(text, SetMin(nl) + 1, Len(text)))

RECURSIVE JoinLines(_)
\* "\n".join(lines)
JoinLines(lines) ==
    IF lines = << >> THEN << >>
    ELSE IF Len(lines) = 1 THEN lines[1]
    ELSE lines[1] \o << 10 >> \o JoinLines(Tail(lines))

\* f"Chương {index}"
DefaultTitle(index) == << 67, 104, 432, 417, 110, 103, 32, 48 + index >>

\* A content string whose every stage succeeds.
ValidContent ==
    [type |-> "str", length_ok |-> TRUE, outer |-> "ok", envelope |-> "dict",
     fields |-> TRUE, iv |-> "ok", value |-> "ok", mac |-> "match",
     padding_ok |-> TRUE, plain_utf8 |-> TRUE]

\* The ways one stage can find the content wrong.
ContentFaults ==
    {[ValidContent EXCEPT !.type = t] : t \in {"missing", "empty"}}
        \cup {[ValidContent EXCEPT !.length_ok = FALSE]}
        \cup {[ValidContent EXCEPT !.outer = o] : o \in {"bad_b64", "bad_utf8", "bad_json"}}
        \cup {[ValidContent EXCEPT !.envelope = e] : e \in {"list", "str", "int"}}
        \cup {[ValidContent EXCEPT !.fields = FALSE]}
        \cup {[ValidContent EXCEPT !.iv = v] : v \in {"short", "bad_b64", "not_str"}}
        \cup {[ValidContent EXCEPT !.value = v] : v \in {"misaligned", "bad_b64"}}
        \cup {[ValidContent EXCEPT !.mac = m] : m \in {"mismatch", "non_ascii", "not_str"}}
        \cup {[ValidContent EXCEPT !.padding_ok = FALSE]}
        \cup {[ValidContent EXCEPT !.plain_utf8 = FALSE]}

Raised(exc) == [raised |-> exc, title |-> << >>, body |-> << >>]

\* extract_key_and_envelope: "" when it returns, else the exception.
extract_key_and_envelope(content) ==
    IF content.type # "str" THEN "TypeError"
    ELSE IF ~content.length_ok THEN "DecryptionError"
    ELSE IF content.outer = "bad_b64" THEN "binascii.Error"
    ELSE IF content.outer = "bad_utf8" THEN "UnicodeDecodeError"
    ELSE IF content.outer = "bad_json" THEN "JSONDecodeError"
    ELSE IF content.envelope = "int" THEN "TypeError"
    ELSE IF ~content.fields THEN "DecryptionError"
    ELSE ""

\* verify_mac: "True", "False", or the exception it raises.
verify_mac(content) ==
    IF content.envelope # "dict" THEN "TypeError"
    ELSE IF content.iv = "not_str" THEN "TypeError"
    ELSE IF content.mac \in {"not_str", "non_ascii"} THEN "TypeError"
    ELSE IF content.mac = "match" THEN "True"
    ELSE "False"

\* decrypt_content(content, verify): the exception, or "" with the text.
decrypt_content(content, plaintext, with_verify) ==
    LET e == extract_key_and_envelope(content)
        v == verify_mac(content)
    IN  IF e # "" THEN Raised("DecryptionError")
        ELSE IF with_verify /\ v \notin {"True", "False"} THEN Raised(v)
        ELSE IF with_verify /\ v = "False" THEN Raised("DecryptionError")
        ELSE IF content.envelope # "dict" \/ content.iv \in {"bad_b64", "not_str"}
                  \/ content.value = "bad_b64"
        THEN Raised("DecryptionError")
        ELSE IF content.iv = "short" THEN Raised("DecryptionError")
        ELSE IF content.value = "misaligned" THEN Raised("DecryptionError")
        ELSE IF ~content.padding_ok \/ ~content.plain_utf8 THEN Raised("DecryptionError")
        ELSE [raised |-> "", title |-> << >>, body |-> Strip(plaintext)]

\* The title decrypt_chapter returns.
TitleFor(chapter) ==
    IF Strip(chapter.name) # << >> THEN Strip(chapter.name)
    ELSE DefaultTitle(chapter.index)

\* Mutant: every line equal to the title is dropped, not only the first.
decrypt_chapter_all_title_lines(chapter) ==
    IF chapter.content.type # "str" THEN Raised("DecryptionError")
    ELSE LET d == decrypt_content(chapter.content, chapter.plaintext, FALSE)
             title == TitleFor(chapter)
             lines == SplitLines(d.body)
             kept  == SelectSeq(lines, LAMBDA l : Strip(l) # title)
         IN  IF d.raised # "" THEN d
             ELSE [raised |-> "", title |-> title, body |-> Strip(JoinLines(kept))]

\* api.py decrypt_chapter.
decrypt_chapter(chapter) ==
    IF chapter.content.type # "str" THEN Raised("DecryptionError")
    ELSE LET d == decrypt_content(chapter.content, chapter.plaintext, FALSE)
             title == TitleFor(chapter)
             lines == SplitLines(d.body)
             ink   == {i \in 1..Len(lines) : Strip(lines[i]) # << >>}
             first == IF ink = {} THEN Len(lines) + 1 ELSE SetMin(ink)
             body_start == IF first <= Len(lines) /\ Strip(lines[first]) = title
                           THEN first + 1 ELSE first
         IN  IF d.raised # "" THEN d
             ELSE [raised |-> "", title |-> title,
                   body |-> Strip(JoinLines(SubSeq(lines, body_start, Len(lines))))]

Texts == UNION {[1..n -> TextAlphabet] : n \in 0..MaxText}

ChapterNames == { << >>, << 97 >>, << 32, 97, 32 >> }

\* A chapter dict whose content is valid, and one whose content is broken.
ApiChapter(content, name, plaintext) ==
    [content |-> content, name |-> name, index |-> 1, plaintext |-> plaintext]

InitDecrypt ==
    /\ source = "mtc"
    /\ upstream = ChainOf(MaxChapters, [i \in 1..MaxChapters |-> "ok"])
    /\ book = BookOf(MaxChapters, TRUE)
    /\ changed = FALSE
    /\ http_client = [max_concurrent |-> 1, retries |-> 0]
    /\ calls = << >>
    /\ run = 1
    /\ pc \in {"decrypt_chapter", "decrypt_content"}
    /\ NoFetch
    /\ outcome = "none"
    /\ bundle_file = NoFile
    /\ NoWrite
    /\ verify \in BOOLEAN
    /\ pc = "decrypt_chapter" => ~verify
    /\ \/ \E content \in ContentFaults :
              api_chapter = ApiChapter(content, << 97 >>, << 97, 10, 98 >>)
       \/ \E name \in ChapterNames, text \in Texts :
              api_chapter = ApiChapter(ValidContent, name, text)
       \/ \E text \in Texts :
              api_chapter = ApiChapter(ValidContent, << >>, DefaultTitle(1) \o << 10 >> \o text)
    /\ dec_result = << >>
    /\ NoTools
    /\ NoJobs

\* decrypt_chapter(chapter), as MTCSource._decrypt calls it.
DecryptChapter ==
    /\ pc = "decrypt_chapter"
    /\ dec_result' = decrypt_chapter(api_chapter)
    /\ pc' = "chapter_decrypted"
    /\ UNCHANGED << worldVars, jobVars, clientVars, toolVars, run, fetchVars, yielded,
                    requests, outcome, fileVars, api_chapter, verify >>

\* decrypt_content(content, verify=...) called on its own.
DecryptContent ==
    /\ pc = "decrypt_content"
    /\ dec_result' = decrypt_content(api_chapter.content, api_chapter.plaintext, verify)
    /\ pc' = "content_decrypted"
    /\ UNCHANGED << worldVars, jobVars, clientVars, toolVars, run, fetchVars, yielded,
                    requests, outcome, fileVars, api_chapter, verify >>

NextDecrypt == DecryptChapter \/ DecryptContent

SpecDecrypt == InitDecrypt /\ [][NextDecrypt]_vars

(* --------------------------- the SQLite index -------------------------- *)

BookIds == {1, 2}

BookSlugs == {"s1", "s2"}

BookNames == {"n1", "n2"}

ChapterIndices == {1, 2}

\* (title, slug, word_count) values of the chapters argument.
ChapterContents == {<< "t1", "c1", 10 >>, << "t2", "c2", 20 >>}

\* Python's None for an id column.
NoId == 0

BookRow(id, slug, name, author_id) ==
    [id |-> id, slug |-> slug, name |-> name, author_id |-> author_id]

ChapterRow(book_id, index_num, content) ==
    [book_id |-> book_id, index_num |-> index_num, title |-> content[1],
     slug |-> content[2], word_count |-> content[3]]

GenreRow(id, slug) == [id |-> id, slug |-> slug]

DbResult(d, raised) == [db |-> d, raised |-> raised]

\* The author statement of upsert_book_metadata: INSERT OR REPLACE INTO authors.
upsert_author(d, author_id) ==
    IF author_id # NoId THEN [d EXCEPT !.authors = @ \cup {author_id}] ELSE d

\* The genre id upsert_book_metadata resolves for g: its own, the one of the
\* stored genre with its slug, or COALESCE(MAX(id), 100) + 1.
resolved_id(genres, g) ==
    IF g.id # NoId THEN g.id
    ELSE IF \E r \in genres : r.slug = g.slug
         THEN (CHOOSE r \in genres : r.slug = g.slug).id
         ELSE (IF genres = {} THEN 100 ELSE SetMax({r.id : r \in genres})) + 1

\* INSERT OR IGNORE INTO genres: id is the primary key and slug is UNIQUE.
insert_genre(genres, id, slug) ==
    IF \E r \in genres : r.id = id \/ r.slug = slug THEN genres
    ELSE genres \cup {GenreRow(id, slug)}

RECURSIVE upsert_genres(_, _)
\* The genres loop: the genres table after it and the _resolved_id of each genre.
upsert_genres(genres, gs) ==
    IF gs = << >> THEN [genres |-> genres, resolved |-> << >>]
    ELSE LET gid == resolved_id(genres, Head(gs))
             rest == upsert_genres(insert_genre(genres, gid, Head(gs).slug), Tail(gs))
         IN  [genres |-> rest.genres, resolved |-> << gid >> \o rest.resolved]

\* The tags loop: INSERT OR REPLACE INTO tags.
upsert_tags(tags, ts) == tags \cup {ts[k] : k \in 1..Len(ts)}

\* DELETE FROM books WHERE id = ?, with chapters.book_id ON DELETE CASCADE.
delete_book(d, id) ==
    [d EXCEPT !.books = {b \in @ : b.id # id},
              !.chapters = {c \in @ : c.book_id # id}]

\* The slug conflict branch that leaves the junction rows of the other book.
delete_slug_conflict_keep_junctions(d, meta) ==
    LET conflict == {b \in d.books : b.slug = meta.slug /\ b.id # meta.id}
    IN  IF conflict = {} THEN d
        ELSE LET cid == (CHOOSE b \in conflict : TRUE).id
             IN  delete_book([d EXCEPT !.chapters = {c \in @ : c.book_id # cid}], cid)

\* "Handle slug conflict": the book that owns meta's slug under another id
\* loses its chapters, its junction rows and its own row.
delete_slug_conflict(d, meta) ==
    LET conflict == {b \in d.books : b.slug = meta.slug /\ b.id # meta.id}
    IN  IF conflict = {} THEN d
        ELSE LET cid == (CHOOSE b \in conflict : TRUE).id
             IN  delete_book(
                     [d EXCEPT !.chapters = {c \in @ : c.book_id # cid},
                               !.book_genres = {j \in @ : j[1] # cid},
                               !.book_tags = {j \in @ : j[1] # cid}], cid)

\* INSERT OR REPLACE INTO books: the row of the same id is deleted first, and
\* its chapters with it.
replace_book(d, row) ==
    LET without == delete_book(d, row.id)
    IN  [without EXCEPT !.books = @ \cup {row}]

\* INSERT INTO books ... ON CONFLICT(id) DO UPDATE SET ...
upsert_book(d, row) ==
    [d EXCEPT !.books = {b \in @ : b.id # row.id} \cup {row}]

\* INSERT OR IGNORE INTO book_genres / book_tags for every genre and tag.
insert_junctions(d, book_id, resolved, ts) ==
    [d EXCEPT !.book_genres = @ \cup {<< book_id, resolved[k] >> : k \in 1..Len(resolved)},
              !.book_tags = @ \cup {<< book_id, ts[k] >> : k \in 1..Len(ts)}]

\* upsert_book_metadata(conn, meta, ...).
upsert_book_metadata(d, meta) ==
    LET with_author == upsert_author(d, meta.author)
        g == upsert_genres(with_author.genres, meta.genres)
        with_labels == [with_author EXCEPT !.genres = g.genres,
                                           !.tags = upsert_tags(@, meta.tags)]
        no_conflict == delete_slug_conflict(with_labels, meta)
        with_book == upsert_book(no_conflict,
                         BookRow(meta.id, meta.slug, meta.name, meta.author))
    IN  DbResult(insert_junctions(with_book, meta.id, g.resolved, meta.tags), "")

\* The meta dict after upsert_book_metadata returned: the genres loop has
\* set g["_resolved_id"] on every genre dict of meta["genres"].
meta_after_upsert(d, meta) ==
    LET g == upsert_genres(upsert_author(d, meta.author).genres, meta.genres)
    IN  [meta EXCEPT !.genres =
            [k \in 1..Len(meta.genres) |->
                [id |-> meta.genres[k].id, slug |-> meta.genres[k].slug,
                 _resolved_id |-> g.resolved[k]]]]

\* compute_meta_hash(meta): the MD5 of the JSON text with sorted keys, which
\* is one text per dict value; MD5 is taken to tell different texts apart.
compute_meta_hash(meta) == << "md5", meta >>

\* INSERT OR IGNORE INTO chapters: the row is dropped when its key is taken or
\* its book is missing.
insert_or_ignore_chapter(d, row) ==
    IF \/ \E c \in d.chapters : c.book_id = row.book_id /\ c.index_num = row.index_num
       \/ ~ \E b \in d.books : b.id = row.book_id
    THEN d
    ELSE [d EXCEPT !.chapters = @ \cup {row}]

\* INSERT OR REPLACE INTO chapters: the row of the same key is deleted first.
insert_or_replace_chapter(d, row) ==
    [d EXCEPT !.chapters =
        {c \in @ : ~(c.book_id = row.book_id /\ c.index_num = row.index_num)} \cup {row}]

RECURSIVE insert_chapter_rows(_, _, _, _)
insert_chapter_rows(d, book_id, chapters, todo) ==
    IF todo = << >> THEN d
    ELSE insert_chapter_rows(
             insert_or_replace_chapter(d, ChapterRow(book_id, Head(todo), chapters[Head(todo)])),
             book_id, chapters, Tail(todo))

\* insert_chapters(conn, book_id, chapters): the first statement fails on the
\* foreign key when the book has no row.
insert_chapters(d, book_id, chapters) ==
    IF ~ \E b \in d.books : b.id = book_id
    THEN DbResult(d, "IntegrityError")
    ELSE DbResult(insert_chapter_rows(d, book_id, chapters,
                                      SortedSeq(DOMAIN chapters)), "")

\* get_chapter_indices(conn, book_id).
get_chapter_indices(d, book_id) ==
    {c.index_num : c \in {r \in d.chapters : r.book_id = book_id}}

GenreArgs == {GenreRow(1, "g1"), GenreRow(NoId, "g1")}

\* The metadata dicts handed to upsert_book_metadata.
Metas ==
    [id : BookIds, slug : BookSlugs, name : BookNames, author : {NoId, 1},
     genres : {<< >>} \cup {<< g >> : g \in GenreArgs},
     tags : {<< >>, << 1 >>}]

\* The chapters dicts handed to insert_chapters.
ChapterArgs ==
    UNION {[indices -> ChapterContents] : indices \in (SUBSET ChapterIndices) \ {{}}}

\* Books as earlier upserts left them: one row per id, one per slug.
StoredBooks ==
    {books \in SUBSET {<< i, s >> : i \in BookIds, s \in BookSlugs} :
        \A x \in books, y \in books : (x[1] = y[1] \/ x[2] = y[2]) => x = y}

\* The index after earlier ingestions: books, their chapters, and for the
\* books in `labelled` an author, a genre and a tag.
StoredDb(books, chapters, labelled) ==
    [books |-> {BookRow(x[1], x[2], "n1", IF x[1] \in labelled THEN 1 ELSE NoId) :
                   x \in books},
     chapters |-> {ChapterRow(c[1], c[2], << "t1", "c1", 10 >>) : c \in chapters},
     authors |-> IF labelled = {} THEN {} ELSE {1},
     genres |-> IF labelled = {} THEN {} ELSE {GenreRow(1, "g1")},
     tags |-> IF labelled = {} THEN {} ELSE {1},
     book_genres |-> {<< b, 1 >> : b \in labelled},
     book_tags |-> {<< b, 1 >> : b \in labelled}]

\* No bundle and no fetch is part of the behaviour.
NoIngest ==
    /\ source = "mtc"
    /\ upstream = ChainOf(MaxChapters, [i \in 1..MaxChapters |-> "ok"])
    /\ book = BookOf(MaxChapters, TRUE)
    /\ changed = FALSE
    /\ NoCalls
    /\ run = 1
    /\ NoFetch
    /\ outcome = "none"
    /\ NoWrite

InitDb ==
    /\ NoIngest
    /\ NoJobs
    /\ bundle_file = NoFile
    /\ pc = "db"
    /\ \E books \in StoredBooks, chapters \in SUBSET (BookIds \X ChapterIndices),
          labelled \in SUBSET BookIds :
          /\ \A c \in chapters : \E x \in books : x[1] = c[1]
          /\ \A b \in labelled : \E x \in books : x[1] = b
          /\ db = StoredDb(books, chapters, labelled)
    /\ db_before = db
    /\ db_call = << >>
    /\ work = << >>
    /\ book_entry = << >>
    /\ dl = << >>
    /\ output = << >>

\* upsert_book_metadata is called and commits.
UpsertBookMetadata ==
    /\ pc = "db"
    /\ \E meta \in Metas :
           LET r == upsert_book_metadata(db, meta)
           IN  /\ db' = r.db
               /\ db_call' = [op |-> "upsert_book_metadata", book_id |-> meta.id,
                              meta |-> meta, chapters |-> << >>, raised |-> r.raised,
                              meta_after |-> meta_after_upsert(db, meta)]
    /\ db_before' = db
    /\ pc' = "db_called"
    /\ UNCHANGED << worldVars, jobVars, clientVars, decryptVars, work, book_entry, dl, output,
                    run, fetchVars, yielded, requests, outcome, fileVars >>

\* insert_chapters is called and commits, or raises.
InsertChapters ==
    /\ pc = "db"
    /\ \E book_id \in BookIds, chapters \in ChapterArgs :
           LET r == insert_chapters(db, book_id, chapters)
           IN  /\ db' = r.db
               /\ db_call' = [op |-> "insert_chapters", book_id |-> book_id,
                              meta |-> << >>, chapters |-> chapters, raised |-> r.raised,
                              meta_after |-> << >>]
    /\ db_before' = db
    /\ pc' = "db_called"
    /\ UNCHANGED << worldVars, jobVars, clientVars, decryptVars, work, book_entry, dl, output,
                    run, fetchVars, yielded, requests, outcome, fileVars >>

NextDb == UpsertBookMetadata \/ InsertChapters

SpecDb == InitDb /\ [][NextDb]_vars

(* ----------------------- migrate_v2: the sync sweep --------------------- *)

slugify_index(index_num) == << 99, 104, 117, 111, 110, 103, 45, 48 + index_num >>

\* read_bundle_version(path): << >> for None, else the one version.
read_bundle_version(file) ==
    IF ~file.exists THEN << >>
    ELSE LET hdr == Slice(file.data, 0, 8)
         IN  IF Len(hdr) < 8 \/ Slice(hdr, 0, 4) # BUNDLE_MAGIC THEN << >>
             ELSE << UnpackU32(hdr, 4) >>

\* decompress_chapter(compressed, zstd_dict): the text of the frame; None and
\* the empty text, which its callers treat alike, are both << >>.
decompress_chapter(compressed) ==
    IF Slice(compressed, 0, 4) = << 40, 181, 47, 253 >>
    THEN Utf8Decode(Slice(compressed, 4, Len(compressed)))
    ELSE << >>

RECURSIVE WordCount(_)
\* len(body.split())
WordCount(body) ==
    IF body = << >> THEN 0
    ELSE (IF ~IsSpace(Head(body)) /\ (Len(body) = 1 \/ IsSpace(body[2])) THEN 1 ELSE 0)
         + WordCount(Tail(body))

\* extract_chapter_meta(body, index_num): the first non-blank line is the title.
extract_chapter_meta(body, index_num) ==
    LET lines == SplitLines(body)
        inked == {k \in 1..Len(lines) : Strip(lines[k]) # << >>}
    IN  ChapterMeta(WordCount(body),
                    IF inked = {} THEN DefaultTitle(index_num)
                    ELSE Strip(lines[SetMin(inked)]),
                    slugify_index(index_num))

BookWork(book_id, version, needs_v2, missing_db_indices) ==
    [book_id |-> book_id, version |-> version, needs_v2 |-> needs_v2,
     missing_db_indices |-> missing_db_indices]

\* scan_bundles for the bundle of book bid: << >> when the bundle is skipped
\* or counted complete, else the one BookWork.
scan_bundles(d, file, bid) ==
    LET version == read_bundle_version(file)
    IN  IF version = << >> THEN << >>
        ELSE LET needs_v2 == version[1] = BUNDLE_VERSION_1
             IN  IF ~ \E b \in d.books : b.id = bid
                 THEN IF needs_v2 THEN << BookWork(bid, version[1], TRUE, {}) >>
                      ELSE << >>
                 ELSE LET missing == read_bundle_indices(file)
                                         \ get_chapter_indices(d, bid)
                      IN  IF ~needs_v2 /\ missing = {} THEN << >>
                          ELSE << BookWork(bid, version[1], needs_v2, missing) >>

\* _get_db_chapter_meta(conn, book_id) as ChapterMeta values.
_get_db_chapter_meta(d, book_id) ==
    [idx \in get_chapter_indices(d, book_id) |->
        LET row == CHOOSE c \in d.chapters : c.book_id = book_id /\ c.index_num = idx
        IN  ChapterMeta(row.word_count, row.title, row.slug)]

\* Phase 1 of _process_one_local: the metadata written into the v2 bundle.
migrated_meta(d, raw_data, book_id) ==
    LET db_meta == _get_db_chapter_meta(d, book_id)
    IN  [idx \in DOMAIN raw_data |->
            IF idx \in DOMAIN db_meta THEN db_meta[idx]
            ELSE LET body == decompress_chapter(raw_data[idx][1])
                 IN  IF body # << >> THEN extract_chapter_meta(body, idx)
                     ELSE EmptyChapterMeta]

\* Phase 2 of _process_one_local for one missing index: << >> when no row is
\* inserted, else the one row.
missing_row(file, book_id, idx) ==
    LET bundle_meta == read_bundle_meta(file)
        raw_data == read_bundle_raw(file)
    IN  IF idx \in DOMAIN bundle_meta /\ bundle_meta[idx].title # << >>
        THEN << ChapterRow(book_id, idx,
                    << bundle_meta[idx].title,
                       IF bundle_meta[idx].slug # << >> THEN bundle_meta[idx].slug
                       ELSE slugify_index(idx),
                       bundle_meta[idx].word_count >>) >>
        ELSE IF idx \notin DOMAIN raw_data THEN << >>
        ELSE LET body == decompress_chapter(raw_data[idx][1])
                 m == extract_chapter_meta(body, idx)
             IN  IF body # << >>
                 THEN << ChapterRow(book_id, idx, << m.title, m.slug, m.word_count >>) >>
                 ELSE << >>

RECURSIVE fill_missing_rows(_, _, _, _)
fill_missing_rows(d, file, book_id, todo) ==
    IF todo = << >> THEN d
    ELSE LET row == missing_row(file, book_id, Head(todo))
         IN  fill_missing_rows(
                 IF row = << >> THEN d ELSE insert_or_ignore_chapter(d, row[1]),
                 file, book_id, Tail(todo))

\* _process_one_local(item, ...) with a connection and without dry_run: the
\* index and the bundle after it.
_process_one_local(item, d, file) ==
    LET raw_data == read_bundle_raw(file)
        skipped_empty == item.needs_v2 /\ raw_data = << >>
        migrated ==
            IF item.needs_v2 /\ ~skipped_empty
            THEN FileOf(BundleBytes(raw_data, migrated_meta(d, raw_data, item.book_id)))
            ELSE file
    IN  [db |-> IF skipped_empty THEN d
                ELSE fill_missing_rows(d, migrated, item.book_id,
                                       SortedSeq(item.missing_db_indices)),
         file |-> migrated]

\* The body of chapter i in the bundles of the sweep: empty for the chapters
\* of `blank`.
SweepBody(i, blank) == IF i \in blank THEN << >> ELSE BodyOf(i)

\* The sweep meets the bundle of book 1, written by a v1 or a v2 writer, and
\* an index that has or lacks the books row and holds some chapter rows.
InitMigrate ==
    /\ NoIngest
    /\ NoJobs
    /\ pc = "scan"
    /\ \E stored \in (SUBSET (1..MaxChapters)) \ {{}}, blank \in SUBSET (1..MaxChapters),
          version \in _SUPPORTED_VERSIONS, with_meta \in BOOLEAN :
          /\ blank \subseteq stored
          /\ version = BUNDLE_VERSION_1 => ~with_meta
          /\ bundle_file =
                 LET chapters == [i \in stored |-> Compress(SweepBody(i, blank))]
                 IN  IF version = BUNDLE_VERSION_1 THEN FileOf(V1BundleBytes(chapters))
                     ELSE FileOf(BundleBytes(chapters,
                              [i \in (IF with_meta THEN stored ELSE {}) |->
                                  ChapterMeta(i, TitleOf(i), SlugOf(i))]))
    /\ \E has_book \in BOOLEAN, rows \in SUBSET (1..MaxChapters) :
          /\ ~has_book => rows = {}
          /\ db = [EmptyDb EXCEPT
                      !.books = IF has_book THEN {BookRow(1, "s1", "n1", NoId)} ELSE {},
                      !.chapters = {ChapterRow(1, i, << TitleOf(i), SlugOf(i), i >>) :
                                       i \in rows}]
    /\ db_before = db
    /\ db_call = << >>
    /\ work = << >>
    /\ book_entry = << >>
    /\ dl = << >>
    /\ output = << >>

\* scan_bundles looks at the bundle and the index.
ScanBundles ==
    /\ pc = "scan"
    /\ work' = scan_bundles(db, bundle_file, 1)
    /\ pc' = IF work' = << >> THEN "swept" ELSE "process"
    /\ UNCHANGED << worldVars, jobVars, clientVars, decryptVars, db, db_before, db_call,
                    book_entry, dl, output, run, fetchVars, yielded, requests,
                    outcome, fileVars >>

\* _migrate_local processes the work item and commits.
ProcessOneLocal ==
    /\ pc = "process"
    /\ LET r == _process_one_local(work[1], db, bundle_file)
       IN  /\ db' = r.db
           /\ bundle_file' = r.file
    /\ db_before' = db
    /\ pc' = "swept"
    /\ UNCHANGED << worldVars, jobVars, clientVars, decryptVars, db_call, work, book_entry, dl,
                    output, run, fetchVars, yielded, requests, outcome, tmp_file,
                    old_file, w_chapters, w_meta, w_queue, known_ids, write_failed, seen >>

NextMigrate == ScanBundles \/ ProcessOneLocal

SpecMigrate == InitMigrate /\ [][NextMigrate]_vars

(* ------------------ the other readers of bundle indices ----------------- *)

\* crawler-descryptor/src/utils.py
_BUNDLE_MAGIC == << 66, 76, 73, 66 >>

_BUNDLE_HEADER_SIZE == 12

_BUNDLE_ENTRY_SIZE == 16

_BUNDLE_SUPPORTED_VERSION == 1

\* utils.read_bundle_indices(book_id) on the bundle file of the book.
utils_read_bundle_indices(file) ==
    IF ~file.exists THEN {}
    ELSE LET hdr == Slice(file.data, 0, _BUNDLE_HEADER_SIZE)
         IN  IF Len(hdr) < _BUNDLE_HEADER_SIZE THEN {}
             ELSE IF Slice(hdr, 0, 4) # _BUNDLE_MAGIC THEN {}
             ELSE IF UnpackU32(hdr, 4) # _BUNDLE_SUPPORTED_VERSION THEN {}
             ELSE LET count == UnpackU32(hdr, 8)
                      idx_buf == Slice(file.data, _BUNDLE_HEADER_SIZE,
                                       _BUNDLE_HEADER_SIZE + count * _BUNDLE_ENTRY_SIZE)
                  IN  IF count = 0 THEN {}
                      ELSE IF Len(idx_buf) < count * _BUNDLE_ENTRY_SIZE THEN {}
                      ELSE {UnpackU32(idx_buf, i * _BUNDLE_ENTRY_SIZE) : i \in 0..(count - 1)}

\* epub-converter/epub_builder.py
_HEADER_MIN == 12

_HEADER_V2 == 16

_ENTRY_SIZE == 16

\* BundleReader(path).indices, as a set: the keys of _entries after
\* _ensure_parsed.
BundleReader_indices(file) ==
    IF ~file.exists THEN {}
    ELSE LET hdr == Slice(file.data, 0, _HEADER_V2)
         IN  IF Len(hdr) < _HEADER_MIN \/ Slice(hdr, 0, 4) # BUNDLE_MAGIC THEN {}
             ELSE LET _version == UnpackU32(hdr, 4)
                      _count == UnpackU32(hdr, 8)
                      _header_size == IF _version >= 2 /\ Len(hdr) >= _HEADER_V2
                                      THEN _HEADER_V2 ELSE _HEADER_MIN
                      idx_buf == Slice(file.data, _header_size,
                                       _header_size + _count * _ENTRY_SIZE)
                  IN  IF _count = 0 THEN {}
                      ELSE IF Len(idx_buf) < _count * _ENTRY_SIZE THEN {}
                      ELSE {UnpackU32(idx_buf, i * _ENTRY_SIZE) : i \in 0..(_count - 1)}

\* epub_builder.py has its own _META_TITLE_MAX and _META_SLUG_MAX.
epub_META_TITLE_MAX == 196

epub_META_SLUG_MAX == 48

\* BundleReader._ensure_parsed: the fields it leaves on the reader.
BundleReader_ensure_parsed(file) ==
    LET unparsed == [_meta_entry_size |-> 0, _entries |-> << >>]
        hdr == Slice(file.data, 0, _HEADER_V2)
    IN  IF ~file.exists THEN unparsed
        ELSE IF Len(hdr) < _HEADER_MIN \/ Slice(hdr, 0, 4) # BUNDLE_MAGIC THEN unparsed
        ELSE LET _version == UnpackU32(hdr, 4)
                 _count == UnpackU32(hdr, 8)
                 v2 == _version >= 2 /\ Len(hdr) >= _HEADER_V2
                 _header_size == IF v2 THEN _HEADER_V2 ELSE _HEADER_MIN
                 _meta_entry_size == IF v2 THEN UnpackU16(hdr, 12) ELSE 0
                 idx_buf == Slice(file.data, _header_size,
                                  _header_size + _count * _ENTRY_SIZE)
             IN  IF _count = 0 \/ Len(idx_buf) < _count * _ENTRY_SIZE
                 THEN [_meta_entry_size |-> _meta_entry_size, _entries |-> << >>]
                 ELSE [_meta_entry_size |-> _meta_entry_size,
                       _entries |->
                           [i \in 1.._count |->
                               [index_num |-> UnpackU32(idx_buf, (i - 1) * _ENTRY_SIZE),
                                offset |-> UnpackU32(idx_buf, (i - 1) * _ENTRY_SIZE + 4)]]]

\* BundleReader.read_chapter_meta(index_num): << >> for None, else the dict
\* in a one-element sequence.  Of two entries with one index_num the later
\* one is the value of the _entries dict.  The two unsigned 32-bit fields
\* are kept as their four little-endian bytes: read from text bytes they
\* exceed 2^31.
BundleReader_read_chapter_meta(file, index_num) ==
    LET reader == BundleReader_ensure_parsed(file)
        found == {i \in DOMAIN reader._entries : reader._entries[i].index_num = index_num}
    IN  IF reader._meta_entry_size = 0 \/ found = {} THEN << >>
        ELSE LET offset == reader._entries[SetMax(found)].offset
                 meta_buf == Slice(file.data, offset, offset + reader._meta_entry_size)
             IN  IF Len(meta_buf) < reader._meta_entry_size THEN << >>
                 ELSE LET title_len == MinOf(meta_buf[9], epub_META_TITLE_MAX)
                          slug_len == MinOf(meta_buf[206], epub_META_SLUG_MAX)
                      IN  << [chapter_id |-> Slice(meta_buf, 0, 4),
                              word_count |-> Slice(meta_buf, 4, 8),
                              title |-> Utf8Decode(Slice(meta_buf, 9, 9 + title_len)),
                              slug |-> Utf8Decode(Slice(meta_buf, 206, 206 + slug_len))] >>

(* ------------------- crawler-descryptor: download_book ------------------ *)

\* What GET /api/books/<id> answers: the book, a book of another id, or an
\* exception out of get_book.
ApiBooks == {"book", "other_book", "error"}

\* count_existing_chapters(book_id): the .txt files and the bundle.
count_existing_chapters(out, file) == out.chapters \cup utils_read_bundle_indices(file)

\* download_book is about to be called with a plan entry that has or lacks
\* first_chapter, or MTCSource.fetch_book_metadata with the entry of the book.
InitDownload ==
    /\ source = "mtc"
    /\ \E n \in 1..MaxChapters, kinds \in KindsUpTo(MaxChapters) :
          /\ \A i \in (n + 1)..MaxChapters : kinds[i] = "ok"
          /\ upstream = ChainOf(n, kinds)
          /\ book = BookOf(n, TRUE)
    /\ changed = FALSE
    /\ NoJobs
    /\ NoCalls
    /\ run = 1
    /\ NoFetch
    /\ outcome = "none"
    /\ NoWrite
    /\ bundle_file = NoFile
    /\ db = EmptyDb
    /\ db_before = EmptyDb
    /\ db_call = << >>
    /\ work = << >>
    /\ pc \in {"download_book", "fetch_book_metadata"}
    /\ \E planned \in BOOLEAN, api \in ApiBooks, existing \in SUBSET (1..MaxChapters) :
          /\ pc = "fetch_book_metadata" => ~planned /\ existing = {}
          /\ book_entry = [id |-> 1,
                           first_chapter |-> IF planned THEN book.first_chapter ELSE 0,
                           chapter_count |-> IF planned THEN book.chapter_count ELSE 0]
          /\ dl = [api |-> api, expected_ch |-> 0, existing |-> {}, chapter_id |-> 0,
                   saved |-> 0, skipped |-> 0, errors |-> 0]
          /\ output = [metadata |-> << >>, chapters |-> existing]

\* MTCSource.fetch_book_metadata(entry), start to return.
FetchBookMetadata ==
    /\ pc = "fetch_book_metadata"
    /\ outcome' = fetch_book_metadata("mtc",
                      [result |-> IF dl.api = "error" THEN "APIError" ELSE "ok",
                       data |-> dl.api])
    /\ pc' = "metadata_fetched"
    /\ UNCHANGED << worldVars, jobVars, clientVars, decryptVars, toolVars, run, fetchVars,
                    yielded, requests, fileVars >>

\* download_book up to its while loop: the metadata fetch or refresh and the
\* count of the chapters already there.
DownloadBookStart ==
    /\ pc = "download_book"
    /\ LET planned == book_entry.first_chapter # 0
           matches == dl.api = "book"
           first_chapter == IF planned THEN book_entry.first_chapter
                            ELSE IF matches THEN book.first_chapter ELSE 0
           expected_ch == IF matches THEN book.chapter_count
                          ELSE book_entry.chapter_count
           existing == count_existing_chapters(output, bundle_file)
       IN  /\ output' = IF matches THEN [output EXCEPT !.metadata = << book_entry.id >>]
                        ELSE output
           /\ IF first_chapter = 0
              THEN /\ dl' = [dl EXCEPT !.errors = 0 - 1]
                   /\ pc' = "download_done"
              ELSE IF expected_ch - Cardinality(existing) <= 0
              THEN /\ dl' = [dl EXCEPT !.expected_ch = expected_ch,
                                       !.existing = existing,
                                       !.skipped = Cardinality(existing)]
                   /\ pc' = "download_done"
              ELSE /\ dl' = [dl EXCEPT !.expected_ch = expected_ch,
                                       !.existing = existing,
                                       !.chapter_id = first_chapter]
                   /\ pc' = "download_walk"
    /\ UNCHANGED << worldVars, jobVars, clientVars, decryptVars, db, db_before, db_call, work,
                    book_entry, run, fetchVars, yielded, requests, outcome, fileVars >>

\* One iteration of `while chapter_id:` in download_book.
DownloadWalkStep ==
    /\ pc = "download_walk"
    /\ requests' = Append(requests, dl.chapter_id)
    /\ LET status == GetStatus(upstream, dl.chapter_id)
           chapter == upstream[dl.chapter_id]
       IN  IF status = "notfound"
           THEN /\ pc' = "download_done"
                /\ UNCHANGED << dl, output >>
           ELSE IF status = "error"
           THEN /\ dl' = [dl EXCEPT !.errors = @ + 1]
                /\ pc' = "download_done"
                /\ UNCHANGED output
           ELSE /\ pc' = IF chapter.next = 0 THEN "download_done" ELSE "download_walk"
                /\ IF chapter.index \in dl.existing
                   THEN /\ dl' = [dl EXCEPT !.chapter_id = chapter.next, !.skipped = @ + 1]
                        /\ UNCHANGED output
                   ELSE IF chapter.kind \in {"empty", "garbled"}
                   THEN /\ dl' = [dl EXCEPT !.chapter_id = chapter.next, !.errors = @ + 1]
                        /\ UNCHANGED output
                   ELSE /\ dl' = [dl EXCEPT !.chapter_id = chapter.next, !.saved = @ + 1]
                        /\ output' = [output EXCEPT !.chapters = @ \cup {chapter.index}]
    /\ UNCHANGED << worldVars, jobVars, clientVars, decryptVars, db, db_before, db_call, work,
                    book_entry, run, fetchVars, yielded, outcome, fileVars >>

NextDownload == FetchBookMetadata \/ DownloadBookStart \/ DownloadWalkStep

SpecDownload == InitDownload /\ [][NextDownload]_vars

(* ------------------- TF: the author id of a parsed book ----------------- *)

\* sources/tf.py
AUTHOR_ID_OFFSET == 40000000

MaxParsed == 3

AuthorNames == {"a1", "a2"}

\* Values the built-in hash() gives a str: negative, zero, small, and two
\* that are equal modulo 10_000_000.
HashValues == {0 - 9999993, 0 - 2, 0, 7, 10000007}

\* parse_book_detail, the author id: None (NoId) without an author name, else
\* AUTHOR_ID_OFFSET + hash(author_name) % 10_000_000 with the hash() of the
\* running process.
tf_author_id(str_hash, author_name) ==
    IF author_name = "" THEN NoId
    ELSE LET author_id == AUTHOR_ID_OFFSET + (str_hash[author_name] % 10000000)
         IN  IF author_id < AUTHOR_ID_OFFSET THEN author_id + 10000000 ELSE author_id

\* A Python process is started with PYTHONHASHSEED unset: the hash of every
\* str is drawn for the life of the process.
StrHashes == [AuthorNames -> HashValues]

\* A first ingest process is up; the index is empty.
InitAuthor ==
    /\ source = "tf"
    /\ upstream = ChainOf(MaxChapters, [i \in 1..MaxChapters |-> "ok"])
    /\ book = BookOf(MaxChapters, TRUE)
    /\ changed = FALSE
    /\ NoCalls
    /\ NoTools
    /\ run = 1
    /\ NoFetch
    /\ outcome = "none"
    /\ NoWrite
    /\ bundle_file = NoFile
    /\ pc = "tf_process"
    /\ pool = << >>
    /\ catalog = << >>
    /\ \E h \in StrHashes : proc = [str_hash |-> h, parsed |-> << >>]

\* One book is ingested from TF: parse_book_detail derives the author id from
\* the page's author name, and upsert_book_metadata stores the book.
IngestTfBook ==
    /\ pc = "tf_process"
    /\ Len(proc.parsed) < MaxParsed
    /\ \E id \in BookIds, author_name \in AuthorNames \cup {""} :
           LET author_id == tf_author_id(proc.str_hash, author_name)
               meta == [id |-> id, slug |-> IF id = 1 THEN "s1" ELSE "s2", name |-> "n1",
                        author |-> author_id, genres |-> << >>, tags |-> << >>]
           IN  /\ proc' = [proc EXCEPT !.parsed =
                              Append(@, [book_id |-> id, author_name |-> author_name,
                                         author_id |-> author_id])]
               /\ db' = upsert_book_metadata(db, meta).db
    /\ UNCHANGED << worldVars, clientVars, decryptVars, pool, catalog,
                    db_before, db_call, work, book_entry, dl, output,
                    run, pc, fetchVars, yielded, requests, outcome, fileVars >>

\* The ingest process exits and a new one is started.
RestartProcess ==
    /\ pc = "tf_process"
    /\ \E h \in StrHashes : proc' = [proc EXCEPT !.str_hash = h]
    /\ UNCHANGED << worldVars, clientVars, decryptVars, toolVars, pool, catalog,
                    run, pc, fetchVars, yielded, requests, outcome, fileVars >>

NextAuthor == IngestTfBook \/ RestartProcess

SpecAuthor == InitAuthor /\ [][NextAuthor]_vars

(* -------------------- refresh_catalog: the refresh phase --------------- *)

MIN_CHAPTER_COUNT == 100

\* fetch_book's default for its retries parameter.
fetch_book_retries == 3

\* How GET /api/books/<id> behaves for a book during the refresh.
ApiBehaviours ==
    {"same", "grown", "short", "gone", "late_gone", "error", "flaky", "down",
     "throttled", "not_success"}

\* What attempt number `attempt` (from 0) of the GET gets: "transport" is an
\* httpx.TransportError, else the status code.
ApiAnswer(behaviour, attempt) ==
    CASE behaviour \in {"same", "grown", "short", "not_success"} -> "200"
      [] behaviour = "gone" -> "404"
      [] behaviour = "late_gone" -> IF attempt = 0 THEN "500" ELSE "404"
      [] behaviour = "error" -> "500"
      [] behaviour = "flaky" -> IF attempt = 0 THEN "transport" ELSE "200"
      [] behaviour = "down" -> "transport"
      [] behaviour = "throttled" -> "429"

\* parse_book of the 200 answer: the entry of the plan with the chapter count
\* the API reports now.
parse_book(old_entry, behaviour) ==
    [old_entry EXCEPT !.chapter_count =
        CASE behaviour = "grown" -> @ + 1
          [] behaviour = "short" -> MIN_CHAPTER_COUNT - 1
          [] OTHER -> @]

RECURSIVE fetch_book(_, _, _)
\* fetch_book from attempt `attempt` on: << >> for None, else the entry in a
\* one-element sequence.
fetch_book(old_entry, behaviour, attempt) ==
    IF attempt >= fetch_book_retries THEN << >>
    ELSE LET r == ApiAnswer(behaviour, attempt)
             again == IF attempt < fetch_book_retries - 1
                      THEN fetch_book(old_entry, behaviour, attempt + 1)
                      ELSE << >>
         IN  CASE r = "transport" -> again
               [] r = "404" -> << >>
               [] r = "429" -> again
               [] r # "200" -> again
               [] behaviour = "not_success" -> << >>
               [] OTHER -> << parse_book(old_entry, behaviour) >>

\* The reconcile loop of refresh over the plan's ids in the order `ids`.
RECURSIVE reconcile(_, _, _, _)
reconcile(old_by_id, results, ids, acc) ==
    IF ids = << >> THEN acc
    ELSE LET book_id == Head(ids)
             new == results[book_id]
             rest == Tail(ids)
         IN  IF new = << >>
             THEN reconcile(old_by_id, results, rest,
                            [acc EXCEPT !.stats.removed = @ + 1])
             ELSE LET old_ch == old_by_id[book_id].chapter_count
                      new_ch == new[1].chapter_count
                      delta == MaxOf(0, new_ch - old_ch)
                      counted ==
                          IF delta > 0 \/ new[1].name # old_by_id[book_id].name
                          THEN [acc EXCEPT !.stats.updated = @ + 1,
                                           !.stats.new_chapters = @ + delta]
                          ELSE [acc EXCEPT !.stats.unchanged = @ + 1]
                      kept ==
                          IF new[1].first_chapter # 0 /\ new[1].chapter_count >= MIN_CHAPTER_COUNT
                          THEN [counted EXCEPT !.updated_list = Append(@, new[1])]
                          ELSE counted
                  IN  reconcile(old_by_id, results, rest, kept)

RECURSIVE SortByChapterCount(_)
\* list.sort(key=-chapter_count): stable, descending.
SortByChapterCount(list) ==
    IF list = << >> THEN << >>
    ELSE LET top == SetMax({list[k].chapter_count : k \in DOMAIN list})
             first == SetMin({k \in DOMAIN list : list[k].chapter_count = top})
         IN  << list[first] >>
             \o SortByChapterCount([k \in 1..(Len(list) - 1) |->
                                       IF k < first THEN list[k] ELSE list[k + 1]])

NoStats ==
    [total |-> 0, updated |-> 0, unchanged |-> 0, removed |-> 0, errors |-> 0,
     new_chapters |-> 0, discovered |-> 0]

PlanEntry(id) ==
    [id |-> id, name |-> "n1", first_chapter |-> 10 + id,
     chapter_count |-> MIN_CHAPTER_COUNT + id]

\* refresh(entries, workers, delay, scan=False) has been called with a plan of
\* one or two books and _fetch_batch has created its tasks.
InitRefresh ==
    /\ NoIngest
    /\ NoTools
    /\ bundle_file = NoFile
    /\ pc = "refresh"
    /\ pool = << >>
    /\ proc = << >>
    /\ \E ids \in (SUBSET BookIds) \ {{}}, api \in [BookIds -> ApiBehaviours] :
          catalog = [old_by_id |-> [id \in ids |-> PlanEntry(id)],
                     api |-> [id \in ids |-> api[id]],
                     results |-> << >>,
                     stats |-> [NoStats EXCEPT !.total = Cardinality(ids)],
                     updated_list |-> << >>]

\* One task _do(bid) of _fetch_batch ends: results[bid] = entry.
FetchBatchTask ==
    /\ pc = "refresh"
    /\ \E bid \in DOMAIN catalog.old_by_id \ DOMAIN catalog.results :
           catalog' = [catalog EXCEPT !.results =
                          @ @@ (bid :> fetch_book(catalog.old_by_id[bid], catalog.api[bid], 0))]
    /\ UNCHANGED << worldVars, clientVars, decryptVars, toolVars, pool, proc,
                    run, pc, fetchVars, yielded, requests, outcome, fileVars >>

\* gather has returned: refresh reconciles the results with the plan in the
\* order of the plan, sorts and returns (updated_list, stats).
RefreshReconcile ==
    /\ pc = "refresh"
    /\ DOMAIN catalog.results = DOMAIN catalog.old_by_id
    /\ LET ids == SortedSeq(DOMAIN catalog.old_by_id)
           r == reconcile(catalog.old_by_id, catalog.results, ids, catalog)
       IN  catalog' = [r EXCEPT !.updated_list = SortByChapterCount(@)]
    /\ pc' = "refreshed"
    /\ UNCHANGED << worldVars, clientVars, decryptVars, toolVars, pool, proc,
                    run, fetchVars, yielded, requests, outcome, fileVars >>

NextRefresh == FetchBatchTask \/ RefreshReconcile

SpecRefresh == InitRefresh /\ [][NextRefresh]_vars

(* ------------------------- the batch runners --------------------------- *)

MaxBooks == 3

MaxWorkers == 2

\* asyncio.Queue.get / get_nowait on a queue that is not empty: the item and
\* the queue without it.  The mutant leaves the item on the queue.
queue_get_peek(queue) == [item |-> Head(queue), queue |-> queue]

queue_get(queue) == [item |-> Head(queue), queue |-> Tail(queue)]

\* The worker tasks: "ready" at the top of the loop, "busy" inside
\* download_book, "returned", "failed" (an exception left the coroutine) or
\* "cancelled".
TaskOf(state, entry) == [state |-> state, entry |-> entry]

\* source "mtc" stands for crawler-descryptor/download_topN.py and "ttv" for
\* crawler-tangthuvien/batch_download.py.  The runner is about to be called
\* with a list of books, a number of workers, and for each book whether its
\* download_book will return or raise an exception it does not handle; the
\* status file of batch_download marks some books "ok".
InitPool ==
    /\ source \in {"mtc", "ttv"}
    /\ upstream = ChainOf(MaxChapters, [i \in 1..MaxChapters |-> "ok"])
    /\ book = BookOf(MaxChapters, TRUE)
    /\ changed = FALSE
    /\ NoCalls
    /\ NoTools
    /\ run = 1
    /\ NoFetch
    /\ outcome = "none"
    /\ NoWrite
    /\ bundle_file = NoFile
    /\ pc = "batch"
    /\ catalog = << >>
    /\ proc = << >>
    /\ \E n \in 1..MaxBooks, workers \in 1..MaxWorkers,
          raises \in SUBSET (1..MaxBooks), status_ok \in SUBSET (1..MaxBooks) :
          /\ raises \subseteq 1..n
          /\ status_ok \subseteq 1..n
          /\ source = "mtc" => status_ok = {}
          /\ pool = [books |-> n, workers |-> workers, raises |-> raises,
                     status_ok |-> status_ok, queued |-> {}, queue |-> << >>,
                     unfinished |-> 0, tasks |-> << >>, results |-> << >>,
                     taken |-> << >>]

\* main_async / run_batch up to its await: the queue is filled and the worker
\* tasks are created.  run_batch skips the books whose status is "ok", creates
\* min(workers, pending) tasks and returns at once when nothing is pending.
StartBatch ==
    /\ pc = "batch"
    /\ LET entries == SortedSeq((1..pool.books) \ pool.status_ok)
           pending == Len(entries)
           tasks == IF source = "mtc" THEN pool.workers ELSE MinOf(pool.workers, pending)
       IN  IF source = "ttv" /\ pending = 0
           THEN /\ pc' = "batch_done"
                /\ outcome' = "nothing_to_do"
                /\ pool' = pool
           ELSE /\ pc' = "batch_running"
                /\ outcome' = outcome
                /\ pool' = [pool EXCEPT !.queue = entries,
                                        !.queued = {entries[k] : k \in 1..pending},
                                        !.unfinished = pending,
                                        !.tasks = [w \in 1..tasks |-> TaskOf("ready", 0)]]
    /\ UNCHANGED << worldVars, clientVars, decryptVars, toolVars, catalog, proc,
                    run, fetchVars, yielded, requests, fileVars >>

\* A worker at the top of its loop takes the next entry and calls
\* download_book.
WorkerTake ==
    /\ pc = "batch_running"
    /\ \E w \in DOMAIN pool.tasks :
           /\ pool.tasks[w].state = "ready"
           /\ pool.queue # << >>
           /\ LET got == queue_get(pool.queue)
              IN  pool' = [pool EXCEPT !.queue = got.queue,
                                       !.tasks[w] = TaskOf("busy", got.item),
                                       !.taken = Append(@, << w, got.item >>)]
    /\ UNCHANGED << worldVars, clientVars, decryptVars, toolVars, catalog, proc,
                    run, pc, fetchVars, yielded, requests, outcome, fileVars >>

\* worker_loop of download_topN finds the queue empty: QueueEmpty, return.
\* (The worker of batch_download stays in `await queue.get()`.)
WorkerReturn ==
    /\ pc = "batch_running"
    /\ source = "mtc"
    /\ \E w \in DOMAIN pool.tasks :
           /\ pool.tasks[w].state = "ready"
           /\ pool.queue = << >>
           /\ pool' = [pool EXCEPT !.tasks[w] = TaskOf("returned", 0)]
    /\ UNCHANGED << worldVars, clientVars, decryptVars, toolVars, catalog, proc,
                    run, pc, fetchVars, yielded, requests, outcome, fileVars >>

\* download_book ends in a worker.  worker_loop appends the result, or the
\* exception it caught, and loops.  worker appends the result, calls
\* queue.task_done() and loops; an exception leaves the coroutine before
\* results.append and task_done.
WorkerFinish ==
    /\ pc = "batch_running"
    /\ \E w \in DOMAIN pool.tasks :
           /\ pool.tasks[w].state = "busy"
           /\ LET entry == pool.tasks[w].entry
                  raised == entry \in pool.raises
              IN  IF source = "mtc"
                  THEN pool' = [pool EXCEPT
                                   !.results = Append(@, [entry |-> entry, raised |-> raised]),
                                   !.tasks[w] = TaskOf("ready", 0)]
                  ELSE IF raised
                  THEN pool' = [pool EXCEPT !.tasks[w] = TaskOf("failed", entry)]
                  ELSE pool' = [pool EXCEPT
                                   !.results = Append(@, [entry |-> entry, raised |-> FALSE]),
                                   !.unfinished = @ - 1,
                                   !.tasks[w] = TaskOf("ready", 0)]
    /\ UNCHANGED << worldVars, clientVars, decryptVars, toolVars, catalog, proc,
                    run, pc, fetchVars, yielded, requests, outcome, fileVars >>

\* The runner's await returns.  main_async: gather returns when every worker
\* task has returned, then the summary is printed.  run_batch: queue.join()
\* returns when every put has its task_done; the tasks are cancelled and the
\* status file is saved.
RunnerEnd ==
    /\ pc = "batch_running"
    /\ IF source = "mtc"
       THEN /\ \A w \in DOMAIN pool.tasks : pool.tasks[w].state = "returned"
            /\ pool' = pool
            /\ outcome' = "summary"
       ELSE /\ pool.unfinished = 0
            /\ pool' = [pool EXCEPT !.tasks =
                           [w \in DOMAIN @ |->
                               IF @[w].state \in {"ready", "busy"}
                               THEN TaskOf("cancelled", @[w].entry) ELSE @[w]]]
            /\ outcome' = "status_saved"
    /\ pc' = "batch_done"
    /\ UNCHANGED << worldVars, clientVars, decryptVars, toolVars, catalog, proc,
                    run, fetchVars, yielded, requests, fileVars >>

NextPool ==
    \/ StartBatch
    \/ WorkerTake
    \/ WorkerReturn
    \/ WorkerFinish
    \/ RunnerEnd

SpecPool == InitPool /\ [][NextPool]_vars

\* The event loop runs every task that can run.
FairPool == SpecPool /\ WF_vars(NextPool)

(* ------------------------------ claims -------------------------------- *)

\* C1: while write_bundle replaces the bundle at a path, a reader that opens
\* the path at any instant gets the complete previous file or the complete
\* new file, never a partial or empty one.
C1_AtomicReplace ==
    seen.opened =>
        \/ seen.file = old_file
        \/ seen.file = FileOf(BundleBytes(w_chapters, w_meta))

\* A reader opened an existing bundle while the temp file was half written.
C1_Witness ==
    /\ seen.opened
    /\ old_file.exists
    /\ pc = "writing"
    /\ tmp_file.data # << >>
    /\ w_queue # << >>
    /\ seen.file = old_file

\* C2: after write_bundle(path, bodies, meta) returns, for non-empty bodies
\* and any meta, read_bundle_indices(path) is exactly the key set of bodies.
C2_IndicesAreKeys ==
    (pc = "idle" /\ outcome = "written") =>
        read_bundle_indices(bundle_file) = DOMAIN w_chapters

\* A bundle of several chapters, not starting at index 1, one of them
\* without metadata, has been written.
C2_Witness ==
    /\ pc = "idle"
    /\ outcome = "written"
    /\ Cardinality(DOMAIN w_chapters) >= 2
    /\ 1 \notin DOMAIN w_chapters
    /\ \E i \in DOMAIN w_chapters : i \notin DOMAIN w_meta

\* C3: for every source and every already_have set, no record yielded by
\* fetch_chapters has an index in already_have.
C3_NoExistingYielded ==
    \A k \in 1..Len(yielded) : yielded[k].index \notin existing_indices

\* A walk fetched a chapter it already had, and yielded others.
C3_Witness ==
    /\ pc = "fetched"
    /\ yielded # << >>
    /\ \E k \in 1..Len(requests) :
          /\ GetStatus(upstream, requests[k]) = "ok"
          /\ upstream[requests[k]].index \in existing_indices

RECURSIVE ForwardRequests(_, _, _)
\* The ids a forward walk from id requests: every id on the next chain, up
\* to and including the first whose fetch fails.
ForwardRequests(up, id, fuel) ==
    IF id = 0 \/ fuel = 0 THEN << >>
    ELSE IF GetStatus(up, id) # "ok" THEN << id >>
    ELSE << id >> \o ForwardRequests(up, up[id].next, fuel - 1)

\* The bundle on disk is the one write_bundle produced, its highest chapter
\* was handed to the writer with a chapter_id, and the upstream still
\* answers that id with that index.
ResumeAnchorKnown ==
    /\ source = "mtc"
    /\ pc = "fetched"
    /\ existing_indices # {}
    /\ bundle_file = FileOf(BundleBytes(w_chapters, w_meta))
    /\ SetMax(existing_indices) \in DOMAIN known_ids
    /\ known_ids[SetMax(existing_indices)] # 0
    /\ GetStatus(upstream, known_ids[SetMax(existing_indices)]) = "ok"
    /\ upstream[known_ids[SetMax(existing_indices)]].index = SetMax(existing_indices)

\* C4: when already_have is non-empty, the bundle written by write_bundle
\* stores a chapter_id for max(already_have) and the GET of that id returns
\* index = max(already_have), the walk continues forward from the returned
\* next.id; with no next, no further request is made and nothing is yielded.
C4_ResumeForward ==
    ResumeAnchorKnown =>
        LET anchor == known_ids[SetMax(existing_indices)]
        IN  /\ outcome = "returned"
            /\ requests = << anchor >> \o ForwardRequests(upstream, upstream[anchor].next, MaxLog)
            /\ upstream[anchor].next = 0 => yielded = << >>

\* C5: with a v2 bundle whose last chapter_id is known, N new chapters
\* upstream and no failing request, fetch_chapters issues exactly 1 + N GETs.
C5_ResumeRequestCount ==
    (ResumeAnchorKnown /\ \A id \in DOMAIN upstream : upstream[id].kind = "ok") =>
        Len(requests) = 1 + Cardinality({id \in DOMAIN upstream :
                                            upstream[id].index > SetMax(existing_indices)})

\* C10: a second ingestion of the same book with no upstream change (the
\* upstream answers every request as in the first run, whose write did not
\* fail) yields no chapter from fetch_chapters.
C10_SecondRunYieldsNothing ==
    (run >= 2 /\ ~changed /\ ~write_failed) => yielded = << >>

\* A second run that had chapters stored, issued requests and yielded nothing.
C10_Witness ==
    /\ run >= 2
    /\ ~changed
    /\ ~write_failed
    /\ pc = "fetched"
    /\ existing_indices # {}
    /\ requests # << >>
    /\ yielded = << >>

\* The anchor request of _plan_resume was answered with a chapter.
AnchorAnswered ==
    /\ pc # "resume"
    /\ GetStatus(upstream, stored_chapter_id) = "ok"

RECURSIVE ReverseRequests(_, _, _, _)
\* The ids a reverse walk from id requests: every id on the previous chain,
\* up to and including the first that fails or whose index is stored.
ReverseRequests(up, id, existing, fuel) ==
    IF id = 0 \/ fuel = 0 THEN << >>
    ELSE IF GetStatus(up, id) # "ok" THEN << id >>
    ELSE IF up[id].index \in existing THEN << id >>
    ELSE << id >> \o ReverseRequests(up, up[id].previous, existing, fuel - 1)

ChapterIdsOf(records) == [k \in 1..Len(records) |-> records[k].chapter_id]

Fetched(id) == GetStatus(upstream, id) = "ok"

NotStored(id) == Fetched(id) /\ upstream[id].index \notin existing_indices

Decrypted(id) == NotStored(id) /\ upstream[id].kind = "ok"

\* fetch_chapters has finished a reverse walk.
ReverseWalkDone ==
    /\ source = "mtc"
    /\ pc = "fetched"
    /\ outcome = "returned"
    /\ walk_reverse

\* C8 as stated: a REVERSE walk starts at latest_chapter, follows
\* previous.id, issues no request after a fetched chapter whose index is in
\* already_have, and yields the fetched chapters whose index is not in
\* already_have, in the order visited.
C8_ReverseYieldsAllFetched ==
    ReverseWalkDone =>
        /\ requests = ReverseRequests(upstream, book.latest_chapter, existing_indices, MaxLog)
        /\ ChapterIdsOf(yielded) = SelectSeq(requests, NotStored)

\* C8 amended: ... and yields, in the order visited, the fetched chapters
\* whose index is not in already_have and whose content decrypts.
C8_ReverseYieldsDecrypted ==
    ReverseWalkDone =>
        /\ requests = ReverseRequests(upstream, book.latest_chapter, existing_indices, MaxLog)
        /\ ChapterIdsOf(yielded) = SelectSeq(requests, Decrypted)

\* A reverse walk yielded a chapter, fetched one it could not decrypt, and
\* stopped at a stored chapter.
C8_Witness ==
    /\ ReverseWalkDone
    /\ yielded # << >>
    /\ \E k \in 1..Len(requests) : NotStored(requests[k]) /\ ~Decrypted(requests[k])
    /\ Fetched(requests[Len(requests)])
    /\ upstream[requests[Len(requests)]].index \in existing_indices

\* C9: a FORWARD walk always terminates, for any chain of next pointers the
\* upstream returns.
C9_ForwardTerminates == <>(pc = "fetched")

\* C11: when a bundle is rewritten by merging new chapters with
\* read_bundle_raw of the old file, every index read_bundle_indices reported
\* for the old file is in the new file with the same compressed bytes and
\* raw length.
C11_MergePreservesOld ==
    (pc = "idle" /\ outcome = "written") =>
        \A i \in read_bundle_indices(old_file) :
            /\ i \in DOMAIN read_bundle_raw(old_file)
            /\ i \in DOMAIN read_bundle_raw(bundle_file)
            /\ read_bundle_raw(bundle_file)[i] = read_bundle_raw(old_file)[i]
            /\ read_bundle_raw(bundle_file)[i] = Compress(BodyOf(i))

\* A v2 bundle of several chapters was rewritten with one more chapter.
C11_Witness ==
    /\ pc = "idle"
    /\ outcome = "written"
    /\ old_file.exists
    /\ _parse_header(Slice(old_file.data, 0, HEADER_SIZE_V2)).version = BUNDLE_VERSION_2
    /\ Cardinality(read_bundle_indices(old_file)) >= 2
    /\ read_bundle_indices(bundle_file) # read_bundle_indices(old_file)

\* C12: if write_bundle fails or is interrupted at any step after the temp
\* file is created, the error propagates to the caller, the temp file no
\* longer exists and the target file has the content it had before the call.
C12_FailureLeavesNoTemp ==
    outcome \in {"write_error", "interrupted"} =>
        /\ ~tmp_file.exists
        /\ bundle_file = old_file

\* C13: for any bundle file produced by write_bundle,
\* write_bundle(path, read_bundle_raw(path), read_bundle_meta(path)) leaves
\* the file byte-for-byte identical.
C13_RewriteIsIdentity ==
    pc = "codec_rewritten" => bundle_file = old_file

\* C14: at every instant the number of HTTP requests in flight from one
\* source's client is at most max_concurrent, however many book workers call
\* the client concurrently.
C14_InFlightBounded ==
    Cardinality(InFlight) <= http_client.max_concurrent

\* C15: no task sleeps (inter-request delay or retry/backoff wait) while it
\* holds a permit of the client's semaphore.
C15_NoSleepHoldingPermit ==
    Sleeping \cap Holders = {}

\* The largest wait the client's own backoff schedule can ask for.
BackoffCeiling ==
    IF source = "tf" THEN 10 ELSE 2 ^ (http_client.retries + 1)

\* C18: on a 429 the client never waits longer than the exponential-backoff
\* ceiling, whatever value the Retry-After header carries.
C18_RetryAfterCapped ==
    \A t \in DOMAIN calls :
        (calls[t].pc = "backoff" /\ calls[t].why = "429") =>
            calls[t].wait <= BackoffCeiling

NotFoundErrors == {"FileNotFoundError", "TFNotFound", "TTVNotFound"}

\* C17: fetch_book_metadata reports "not found" (None) only when the upstream
\* answered 404; any other failure reaches the caller as something else.
C17_NotFoundOnly404 ==
    \A t \in DOMAIN calls :
        (calls[t].pc = "done" /\ calls[t].op = "metadata"
            /\ calls[t].reported = "None") =>
                calls[t].result \in NotFoundErrors

\* The call goes through the client's GET (MTC covers use the bare httpx
\* client instead).
ThroughGet(t) == ~(source = "mtc" /\ calls[t].op = "cover")

\* C16: every client GET sends at most `retries` requests and ends, by
\* returning a successful response or raising an error to its caller,
\* whatever the upstream answers.
C16_GetTerminates ==
    /\ [](\A t \in DOMAIN calls :
              ThroughGet(t) => calls[t].sent <= http_client.retries)
    /\ \A t \in Tasks :
           <>(t \in DOMAIN calls =>
                  /\ calls[t].pc \in {"returned", "done"}
                  /\ calls[t].result # "none")

C16_Witness ==
    \E t \in DOMAIN calls :
        /\ ThroughGet(t)
        /\ calls[t].pc = "returned"
        /\ calls[t].sent = MaxRetries
        /\ calls[t].attempt = MaxRetries - 1
        /\ calls[t].result \in {"APIError", "TFFetchError", "TTVFetchError"}

\* How many times the chapter at idx was requested in this run.
RequestCount(idx) ==
    Cardinality({k \in 1..Len(requests) : requests[k] = ChapterIdOf(idx)})

\* C20: for TTV and TF, a chapter whose 200 response lacks the chapter
\* container is requested again, up to 3 times, before it is skipped.
C20_ContainerlessRetried ==
    (pc = "fetched" /\ source \in {"ttv", "tf"}) =>
        \A idx \in 1..book.chapter_count :
            (idx \notin existing_indices
                /\ upstream[ChapterIdOf(idx)].kind = "empty") =>
                    /\ RequestCount(idx) = 3
                    /\ \A k \in 1..Len(yielded) : yielded[k].index # idx

BatchNow == Slice(to_fetch, batch_start, batch_start + _FETCH_BATCH_SIZE)

FailedNow ==
    {k \in 1..Len(BatchNow) : upstream[ChapterIdOf(BatchNow[k])].kind # "ok"}

\* C19: the TF inter-batch delay starts at 0, rises by 5 s after a batch in
\* which more than half of the chapters failed, falls by 2 s after a batch
\* with no failure, is unchanged otherwise, and always stays in [0 s, 30 s].
C19_AdaptiveDelay ==
    /\ [][pc = "fetch" => batch_delay' = 0]_vars
    /\ [](batch_delay >= 0 /\ batch_delay <= 30)
    /\ [][pc = "tf_loop" =>
            batch_delay' =
                IF 2 * Cardinality(FailedNow) > Len(BatchNow)
                THEN (IF batch_delay + 5 > 30 THEN 30 ELSE batch_delay + 5)
                ELSE IF FailedNow = {}
                THEN (IF batch_delay - 2 < 0 THEN 0 ELSE batch_delay - 2)
                ELSE batch_delay]_vars

\* The delay has reached its cap and a further batch is about to run.
C19_Witness ==
    /\ pc = "tf_loop"
    /\ batch_delay = 30
    /\ batch_start = (MaxBatches - 1) * _FETCH_BATCH_SIZE

\* The first non-blank line of a text, trimmed; << >> when there is none.
FirstLine(text) ==
    LET ink == {i \in 1..Len(text) : ~IsSpace(text[i])}
        p   == SetMin(ink)
        nl  == {i \in p..Len(text) : text[i] = 10}
        q   == IF nl = {} THEN Len(text) + 1 ELSE SetMin(nl)
    IN  IF ink = {} THEN << >> ELSE Strip(SubSeq(text, p, q - 1))

\* The text after the line that holds its first non-blank character.
AfterFirstLine(text) ==
    LET ink == {i \in 1..Len(text) : ~IsSpace(text[i])}
        nl  == {i \in SetMin(ink)..Len(text) : text[i] = 10}
    IN  IF ink = {} \/ nl = {} THEN << >>
        ELSE SubSeq(text, SetMin(nl) + 1, Len(text))

ChapterDecrypted == pc = "chapter_decrypted" /\ dec_result.raised = ""

\* C22: every failure while decrypting chapter content surfaces as
\* DecryptionError and as no other exception type.
C22_OnlyDecryptionError ==
    (pc \in {"chapter_decrypted", "content_decrypted"} /\ dec_result.raised # "") =>
        dec_result.raised = "DecryptionError"

\* C23: the first non-blank line of the body decrypt_chapter returns is not
\* equal to the chapter title it returns.
C23_BodyNeverStartsWithTitle ==
    (ChapterDecrypted /\ dec_result.body # << >>) =>
        FirstLine(dec_result.body) # dec_result.title

\* C24: decrypt_chapter removes at most one line, the first non-blank one
\* and only when it equals the title; everything after it is kept in order,
\* and a text not starting with the title comes back trimmed and otherwise
\* unchanged.
C24_OnlyLeadingTitleDropped ==
    ChapterDecrypted =>
        LET plaintext == Strip(api_chapter.plaintext)
        IN  dec_result.body =
                IF plaintext # << >> /\ FirstLine(plaintext) = dec_result.title
                THEN Strip(AfterFirstLine(plaintext))
                ELSE plaintext

\* The text starts with the title and repeats it on a later line, which the
\* body still holds.
C24_Witness ==
    /\ ChapterDecrypted
    /\ FirstLine(Strip(api_chapter.plaintext)) = dec_result.title
    /\ dec_result.body # << >>
    /\ \E k \in 1..Len(SplitLines(dec_result.body)) :
           Strip(SplitLines(dec_result.body)[k]) = dec_result.title

\* The chapter the walk goes to after id.
WalkSuccessor(id) ==
    IF walk_reverse THEN upstream[id].previous ELSE upstream[id].next

YieldedChapterIds == {yielded[k].chapter_id : k \in 1..Len(yielded)}

\* C21: a chapter whose decryption fails during a walk is skipped and the
\* walk continues along the pointer chain: the chapter after it is requested
\* and every other new chapter the walk reaches is yielded.
C21_DecryptFailureSkipped ==
    (source = "mtc" /\ pc = "fetched" /\ outcome = "returned") =>
        \A k \in 1..Len(requests) :
            (NotStored(requests[k]) /\ ~Decrypted(requests[k])) =>
                /\ requests[k] \notin YieldedChapterIds
                /\ WalkSuccessor(requests[k]) # 0 =>
                       /\ k < Len(requests)
                       /\ requests[k + 1] = WalkSuccessor(requests[k])
                /\ \A j \in 1..Len(requests) :
                       Decrypted(requests[j]) => requests[j] \in YieldedChapterIds

\* A walk met a chapter it could not decrypt and yielded a later one.
C21_Witness ==
    /\ source = "mtc" /\ pc = "fetched" /\ outcome = "returned"
    /\ \E k \in 1..Len(requests), j \in 1..Len(requests) :
           /\ k < j
           /\ NotStored(requests[k]) /\ ~Decrypted(requests[k])
           /\ Decrypted(requests[j])
           /\ requests[j] \in YieldedChapterIds

ChaptersOf(d, book_id) == {c \in d.chapters : c.book_id = book_id}

Upserted == pc = "db_called" /\ db_call.op = "upsert_book_metadata"

\* C25: upsert_book_metadata for a book id that already has a books row
\* leaves every chapter row of that book as it was: the same rows with the
\* same contents.
C25_UpsertKeepsChapters ==
    (Upserted /\ \E b \in db_before.books : b.id = db_call.book_id) =>
        ChaptersOf(db, db_call.book_id) = ChaptersOf(db_before, db_call.book_id)

C25_Witness ==
    /\ Upserted
    /\ \E b \in db_before.books : b.id = db_call.book_id /\ b \notin db.books
    /\ Cardinality(ChaptersOf(db_before, db_call.book_id)) = 2

SlugOwners(d, meta) == {b \in d.books : b.slug = meta.slug /\ b.id # meta.id}

\* C26: after upsert_book_metadata(meta) when another book id owned meta's
\* slug, that book's row, its chapters and its book_genres and book_tags
\* rows are gone, and the incoming book is the only books row with the slug.
C26_SlugConflictIncomingWins ==
    (Upserted /\ SlugOwners(db_before, db_call.meta) # {}) =>
        /\ \A o \in SlugOwners(db_before, db_call.meta) :
               /\ ~ \E b \in db.books : b.id = o.id
               /\ ChaptersOf(db, o.id) = {}
               /\ ~ \E j \in db.book_genres \cup db.book_tags : j[1] = o.id
        /\ \A b \in db.books : b.slug = db_call.meta.slug <=> b.id = db_call.meta.id

C26_Witness ==
    /\ Upserted
    /\ \E o \in SlugOwners(db_before, db_call.meta) :
           /\ ChaptersOf(db_before, o.id) # {}
           /\ \E j \in db_before.book_genres : j[1] = o.id
           /\ \E j \in db_before.book_tags : j[1] = o.id
    /\ ChaptersOf(db_before, db_call.meta.id) # {}

\* C27: inserting a chapter row for a (book_id, index) that already has a
\* row leaves the existing row unchanged.
C27_ExistingChapterRowKept ==
    (pc = "db_called" /\ db_call.op = "insert_chapters") =>
        \A c \in db_before.chapters :
            (c.book_id = db_call.book_id /\ c.index_num \in DOMAIN db_call.chapters) =>
                c \in db.chapters

\* C28: after the sync sweep has processed a book that has a books row, the
\* chapter rows of the book have exactly the indices of its bundle: no
\* bundle index lacks a row and no row has an index the bundle lacks.
C28_SweepReconciles ==
    (pc = "swept" /\ \E b \in db.books : b.id = 1) =>
        get_chapter_indices(db, 1) = read_bundle_indices(bundle_file)

\* C29: when the upstream returns metadata whose id differs from the
\* requested book id, the book is aborted: no metadata is returned or
\* stored for it and no chapter of it is requested or saved.
C29_IdMismatchAborts ==
    /\ (pc = "metadata_fetched" /\ dl.api = "other_book") => outcome = "None"
    /\ (pc \in {"download_walk", "download_done"} /\ dl.api = "other_book") =>
           /\ output.metadata = << >>
           /\ requests = << >>
           /\ dl.saved = 0

\* C30: for the same valid bundle file, v1 or v2, book-ingest's
\* read_bundle_indices, the crawler's read_bundle_indices and the EPUB
\* builder's BundleReader return the same index set.
C30_IndexReadersAgree ==
    (bundle_file.exists /\ _parse_header(Slice(bundle_file.data, 0, HEADER_SIZE_V2)).ok) =>
        /\ utils_read_bundle_indices(bundle_file) = read_bundle_indices(bundle_file)
        /\ BundleReader_indices(bundle_file) = read_bundle_indices(bundle_file)

IsPrefix(p, s) == Len(p) <= Len(s) /\ SubSeq(s, 1, Len(p)) = p

\* C31: when a chapter title is longer than 200 UTF-8 bytes, the title
\* stored in the metadata block is cut on a code-point boundary: reading it
\* back yields a prefix of the original title of at most 200 bytes, with no
\* partial or replacement character.
C31_TitleCutOnCodePoint ==
    pc = "codec_written" =>
        \A i \in DOMAIN w_meta :
            Len(Utf8Encode(w_meta[i].title)) > _META_TITLE_MAX =>
                LET stored == read_bundle_meta(bundle_file)[i].title
                IN  /\ Len(Utf8Encode(stored)) <= _META_TITLE_MAX
                    /\ IsPrefix(stored, w_meta[i].title)

\* The parsed header and index entries of the bundle file.
FileHeader == _parse_header(Slice(bundle_file.data, 0, HEADER_SIZE_V2))

FileEntries == IndexEntries(bundle_file.data, FileHeader)

RECURSIVE BlocksBefore(_, _, _)
\* The sum of meta_size + comp_len over the entries before the k-th.
BlocksBefore(entries, meta_size, k) ==
    IF k = 1 THEN 0
    ELSE BlocksBefore(entries, meta_size, k - 1) + meta_size + entries[k - 1].comp_len

WrittenByWriteBundle ==
    bundle_file.exists /\ read_bundle_version(bundle_file) = << BUNDLE_VERSION_2 >>

\* C32: in every file written by write_bundle the index entries are in
\* ascending chapter index order, the k-th entry's block offset is
\* header_size + N*16 + the sum of (meta_size + comp_len) over the earlier
\* entries, and every entry's metadata block and body lie within the file.
C32_IndexLayout ==
    WrittenByWriteBundle =>
        /\ FileHeader.ok
        /\ Len(FileEntries) = FileHeader.count
        /\ \A k \in 1..Len(FileEntries) :
               /\ k > 1 => FileEntries[k - 1].index_num < FileEntries[k].index_num
               /\ FileEntries[k].offset =
                      FileHeader.header_size + FileHeader.count * ENTRY_SIZE
                      + BlocksBefore(FileEntries, FileHeader.meta_entry_size, k)
               /\ FileEntries[k].offset + FileHeader.meta_entry_size
                      + FileEntries[k].comp_len <= Len(bundle_file.data)

C32_Witness ==
    /\ pc = "swept"
    /\ work # << >>
    /\ work[1].needs_v2
    /\ WrittenByWriteBundle
    /\ Len(FileEntries) = MaxChapters
    /\ \E j \in 1..Len(FileEntries), k \in 1..Len(FileEntries) :
           FileEntries[j].comp_len # FileEntries[k].comp_len

\* Every request of the run was answered with a chapter, and every upstream
\* chapter decrypts.
AllSucceeded ==
    /\ \A k \in 1..Len(requests) : Fetched(requests[k])
    /\ \A id \in DOMAIN upstream : upstream[id].kind = "ok"

UpstreamIndices == {upstream[id].index : id \in DOMAIN upstream}

YieldedIndices == {yielded[k].index : k \in 1..Len(yielded)}

\* C35: after a fetch_chapters run of the API source in which every request
\* succeeds and every chapter decrypts, already_have together with the
\* yielded indices contains every chapter index that exists upstream, also
\* when already_have has gaps below its maximum.
C35_WalkCoversUpstream ==
    (source = "mtc" /\ pc = "fetched" /\ outcome = "returned" /\ AllSucceeded) =>
        UpstreamIndices \subseteq (existing_indices \cup YieldedIndices)

\* C36: for every chapter whose ChapterMeta was written by write_bundle, the
\* EPUB builder's BundleReader.read_chapter_meta decodes from the file the
\* same title, slug and word_count that were written.
C36_EpubReaderDecodesMeta ==
    pc = "codec_written" =>
        \A i \in DOMAIN w_meta :
            LET got == BundleReader_read_chapter_meta(bundle_file, i)
            IN  /\ got # << >>
                /\ got[1].title = w_meta[i].title
                /\ got[1].slug = w_meta[i].slug
                /\ got[1].word_count = PackU32(w_meta[i].word_count)

\* C37: upsert_book_metadata does not modify the metadata dict it is given:
\* compute_meta_hash(meta) has the same value before and after the upsert.
C37_MetaUnchangedByUpsert ==
    Upserted => compute_meta_hash(db_call.meta_after) = compute_meta_hash(db_call.meta)

\* C39: the author id the TF source derives depends only on the author name:
\* the same name yields the same id in every run and every process, so
\* re-ingesting a book never creates a second author row for the same author.
C39_AuthorIdFromNameOnly ==
    pc = "tf_process" =>
        /\ \A k \in DOMAIN proc.parsed, j \in DOMAIN proc.parsed :
               proc.parsed[k].author_name = proc.parsed[j].author_name =>
                   proc.parsed[k].author_id = proc.parsed[j].author_id
        /\ Cardinality(db.authors) <=
               Cardinality({proc.parsed[k].author_name : k \in DOMAIN proc.parsed} \ {""})

\* The ids of the plan for which some attempt of fetch_book was answered 404.
Answered404 ==
    {id \in DOMAIN catalog.old_by_id :
        \E attempt \in 0..(fetch_book_retries - 1) :
            ApiAnswer(catalog.api[id], attempt) = "404"}

\* C34: during catalog refresh a book is counted as removed and dropped from
\* the plan only if the upstream answered 404 for it; a book whose fetch
\* failed for a transient reason is not counted as removed.
C34_RemovedOnly404 ==
    pc = "refreshed" => catalog.stats.removed = Cardinality(Answered404)

TakenEntries == {pool.taken[k][2] : k \in DOMAIN pool.taken}

InProgress == {w \in DOMAIN pool.tasks : pool.tasks[w].state = "busy"}

ResultsOf(entry) == {k \in DOMAIN pool.results : pool.results[k].entry = entry}

BatchStarted == pc \in {"batch_running", "batch_done"} /\ outcome # "nothing_to_do"

\* C33: in a batch run with W workers every entry placed on the queue is
\* taken by exactly one worker and processed exactly once, at most W books
\* are in progress at any time, and the run ends only after every queued
\* entry has a recorded result.
C33_EachEntryOnce ==
    BatchStarted =>
        /\ \A k \in DOMAIN pool.taken, j \in DOMAIN pool.taken :
               pool.taken[k][2] = pool.taken[j][2] => k = j
        /\ TakenEntries \subseteq pool.queued
        /\ \A entry \in pool.queued : Cardinality(ResultsOf(entry)) <= 1
        /\ \A k \in DOMAIN pool.results : pool.results[k].entry \in TakenEntries
        /\ Cardinality(InProgress) <= pool.workers
        /\ pc = "batch_done" =>
               \A entry \in pool.queued :
                   /\ entry \in TakenEntries
                   /\ Cardinality(ResultsOf(entry)) = 1

\* A run of two workers over three books ended: both workers took entries
\* and one download raised.
C33_Witness ==
    /\ pc = "batch_done"
    /\ BatchStarted
    /\ Cardinality(pool.queued) = MaxBooks
    /\ Cardinality({pool.taken[k][1] : k \in DOMAIN pool.taken}) = 2
    /\ \E k \in DOMAIN pool.results : pool.results[k].raised

\* Every queued book has been attempted: taken, and its download_book ended.
AllAttempted ==
    /\ pc = "batch_running"
    /\ TakenEntries = pool.queued
    /\ InProgress = {}

\* C38: run_batch always terminates once every queued book has been
\* attempted, also when a download raised an unexpected exception inside a
\* worker: the wait on the queue returns, the workers are cancelled and the
\* status file is saved.
C38_RunBatchTerminates ==
    (source = "ttv" /\ AllAttempted) ~> (pc = "batch_done" /\ outcome = "status_saved")

====
